---- MODULE Spec2Model ----
(***************************************************************************)
(* Model of the Strava MCP server core: the credential store               *)
(* (refreshAccessToken / updateTokensInEnvFile), the resilient API client  *)
(* (handleApiCall and the public StravaClient operations built on it).     *)
(*                                                                         *)
(* Strings are sequences of one-character strings.  The two long key       *)
(* names are abbreviated to one symbol each:                               *)
(*   "A" stands for the text STRAVA_ACCESS_TOKEN                            *)
(*   "R" stands for the text STRAVA_REFRESH_TOKEN                           *)
(* so the prefix 'STRAVA_ACCESS_TOKEN=' is the two-symbol string "A" "=".  *)
(***************************************************************************)
EXTENDS Integers, Sequences, FiniteSets, TLC

(***************************************************************************)
(* Bounds of the model                                                     *)
(***************************************************************************)
\* number of distinct token pairs the token endpoint can answer with
NumPairs == 2
\* longest persisted store, in lines, enumerated by the store specification
MaxLines == 3

(***************************************************************************)
(* Characters and strings                                                  *)
(***************************************************************************)
NL == "\n"
SP == " "
EQ == "="

\* String.prototype.trim removes white space; SP is the representative
IsSpace(c) == c = SP \/ c = NL

EmptyStr == << >>

\* the element of a singleton: in Only({ F(x) : x \in {v} }) the value v is
\* computed once, however often F uses x
Only(S) == CHOOSE x \in S : TRUE

\* line.startsWith(prefix)
StartsWith(s, p) ==
  /\ Len(s) >= Len(p)
  /\ \A i \in 1..Len(p) : s[i] = p[i]

\* index of the first non-space character, Len(s)+1 when there is none
RECURSIVE FirstNonSpace(_, _)
FirstNonSpace(s, i) ==
  IF i > Len(s) THEN i
  ELSE IF IsSpace(s[i]) THEN FirstNonSpace(s, i + 1) ELSE i

\* index of the last non-space character, 0 when there is none
RECURSIVE LastNonSpace(_, _)
LastNonSpace(s, i) ==
  IF i < 1 THEN 0
  ELSE IF IsSpace(s[i]) THEN LastNonSpace(s, i - 1) ELSE i

\* String.prototype.trim
Trim(s) ==
  LET a == FirstNonSpace(s, 1)
      b == LastNonSpace(s, Len(s))
  IN IF a > b THEN EmptyStr ELSE SubSeq(s, a, b)

TrimStart(s) == SubSeq(s, FirstNonSpace(s, 1), Len(s))

TrimEnd(s) == SubSeq(s, 1, LastNonSpace(s, Len(s)))

\* envContent.split('\n'): n separators give n+1 pieces, possibly empty
RECURSIVE SplitFrom(_, _, _)
SplitFrom(s, i, cur) ==
  IF i > Len(s) THEN << cur >>
  ELSE IF s[i] = NL THEN << cur >> \o SplitFrom(s, i + 1, EmptyStr)
  ELSE SplitFrom(s, i + 1, Append(cur, s[i]))

Split(s) == SplitFrom(s, 1, EmptyStr)

\* newLines.join('\n')
RECURSIVE Join(_)
Join(ls) ==
  IF Len(ls) = 0 THEN EmptyStr
  ELSE IF Len(ls) = 1 THEN ls[1]
  ELSE ls[1] \o << NL >> \o Join(Tail(ls))

(***************************************************************************)
(* Tokens.  Pair 0 is the pair the process starts with; the token          *)
(* endpoint answers with one of the pairs 1..NumPairs.                     *)
(***************************************************************************)
Digit(k) == CASE k = 0 -> "0" [] k = 1 -> "1" [] k = 2 -> "2" [] k = 3 -> "3"
              [] OTHER -> "9"

AccessTok(k) == << "a", Digit(k) >>

RefreshTok(k) == << "r", Digit(k) >>

ACCESS_PREFIX == << "A", EQ >>

REFRESH_PREFIX == << "R", EQ >>


(***************************************************************************)
(* updateTokensInEnvFile: the content written for a content read           *)
(***************************************************************************)
AccessLine(accessToken) == ACCESS_PREFIX \o accessToken

RefreshLine(refreshToken) == REFRESH_PREFIX \o refreshToken

\* variant: the loop keeps the token lines only
RECURSIVE ScanLinesTokensOnly(_, _, _, _, _)
ScanLinesTokensOnly(lines, i, accessToken, refreshToken, st) ==
  IF i > Len(lines) THEN st
  ELSE LET line == lines[i] IN
    IF StartsWith(line, ACCESS_PREFIX)
    THEN ScanLinesTokensOnly(lines, i + 1, accessToken, refreshToken,
           [st EXCEPT !.newLines = Append(@, AccessLine(accessToken)),
                      !.accessTokenUpdated = TRUE])
    ELSE IF StartsWith(line, REFRESH_PREFIX)
    THEN ScanLinesTokensOnly(lines, i + 1, accessToken, refreshToken,
           [st EXCEPT !.newLines = Append(@, RefreshLine(refreshToken)),
                      !.refreshTokenUpdated = TRUE])
    ELSE ScanLinesTokensOnly(lines, i + 1, accessToken, refreshToken, st)

\* the for-loop over lines: st = [newLines, accessTokenUpdated, refreshTokenUpdated]
RECURSIVE ScanLines(_, _, _, _, _)
ScanLines(lines, i, accessToken, refreshToken, st) ==
  IF i > Len(lines) THEN st
  ELSE LET line == lines[i] IN
    IF StartsWith(line, ACCESS_PREFIX)
    THEN ScanLines(lines, i + 1, accessToken, refreshToken,
           [st EXCEPT !.newLines = Append(@, AccessLine(accessToken)),
                      !.accessTokenUpdated = TRUE])
    ELSE IF StartsWith(line, REFRESH_PREFIX)
    THEN ScanLines(lines, i + 1, accessToken, refreshToken,
           [st EXCEPT !.newLines = Append(@, RefreshLine(refreshToken)),
                      !.refreshTokenUpdated = TRUE])
    ELSE IF Trim(line) # EmptyStr
    THEN ScanLines(lines, i + 1, accessToken, refreshToken,
           [st EXCEPT !.newLines = Append(@, line)])
    ELSE ScanLines(lines, i + 1, accessToken, refreshToken, st)

\* variant: a missing refresh-token line is not appended
AppendMissingAccessOnly(st, accessToken, refreshToken) ==
  IF ~st.accessTokenUpdated
  THEN Append(st.newLines, AccessLine(accessToken))
  ELSE st.newLines

\* the lines pushed after the loop for the keys that were not found
AppendMissing(st, accessToken, refreshToken) ==
  LET l1 == IF ~st.accessTokenUpdated
            THEN Append(st.newLines, AccessLine(accessToken))
            ELSE st.newLines
  IN IF ~st.refreshTokenUpdated
     THEN Append(l1, RefreshLine(refreshToken))
     ELSE l1

\* the argument of fs.writeFile: newLines.join('\n').trim() + '\n'
UpdatedEnvContent(envContent, accessToken, refreshToken) ==
  Only({ Trim(joined) \o << NL >> :
         joined \in { Join(AppendMissing(st, accessToken, refreshToken)) :
           st \in { ScanLines(lines, 1, accessToken, refreshToken,
                      [newLines |-> << >>, accessTokenUpdated |-> FALSE,
                       refreshTokenUpdated |-> FALSE]) :
                    lines \in {Split(envContent)} } } })


(***************************************************************************)
(* The program state                                                       *)
(***************************************************************************)
VARIABLES
  env,        \* process.env: STRAVA_ACCESS_TOKEN, STRAVA_REFRESH_TOKEN,
              \* STRAVA_CLIENT_ID, STRAVA_CLIENT_SECRET (EmptyStr = unset)
  envFile,    \* content of the .env file
  task,       \* per task: its StravaClient instance and its call stack
  started,    \* per task: whether its caller has started its operation
  lastStore,  \* task and response whose tokens were last put into process.env
  done,       \* the executions that settled in the last step, innermost first
  env0,       \* process.env at start
  zones       \* the zone computation at hand: its inputs, then its result

vars == << env, envFile, task, started, lastStore, done, env0, zones >>

\* no zone computation at hand
NoZones == [phase |-> "none"]

Tasks == {"t1", "t2"}

(***************************************************************************)
(* Values and errors that travel through the promises                      *)
(***************************************************************************)
NoVal == [kind |-> "none", what |-> "none", status |-> 0, id |-> 0, flag |-> FALSE]

\* a resolved value: the body of remote response number id, or a derived result
Value(what, id, flag) ==
  [kind |-> "value", what |-> what, status |-> 200, id |-> id, flag |-> flag]

\* a rejected promise; status 0 means the error carries no response
Error(what, status, id) ==
  [kind |-> "error", what |-> what, status |-> status, id |-> id, flag |-> FALSE]

\* variant: every error that carries a response counts as an authorization error
isAuthErrorAnyStatus(error) ==
  /\ error.kind = "error"
  /\ error.status # 0

\* isAuthError: error && error.response && error.response.status === 401
isAuthError(error) ==
  /\ error.kind = "error"
  /\ error.status # 0
  /\ error.status = 401


(***************************************************************************)
(* The public operations of StravaClient.  Every one of them is            *)
(* handleApiCall(context, apiCall); a leaf apiCall sends one remote        *)
(* request, a composite apiCall awaits other public operations.            *)
(***************************************************************************)
LeafOps == {"getAthlete", "getActivities", "getActivity",
            "getActivityStreams", "getActivityLaps"}

CompositeOps == {"getActivitiesByDate", "getHeartRateData",
                 "getActivityLapsWithData", "getRecentActivitiesWithHeartRate"}

\* operations whose response carries a field the composite bodies branch on:
\* activity.has_heartrate and laps.length > 0
FlagOps == {"getActivity", "getActivityLaps"}

Call(op) == [do |-> "call", op |-> op, val |-> NoVal]

Return(v) == [do |-> "return", op |-> "-", val |-> v]

\* variant of the composite bodies without the early returns for absent
\* data: the streams are requested whatever the activity and the laps say
BodyNextAlwaysStreams(op, step, acc) ==
  CASE op = "getActivitiesByDate" ->
         IF step = 1 THEN Call("getActivities") ELSE Return(acc)
    [] op = "getRecentActivitiesWithHeartRate" ->
         IF step = 1 THEN Call("getActivitiesByDate")
         ELSE Return(Value("recent_with_hr", acc.id, acc.flag))
    [] op = "getHeartRateData" ->
         IF step = 1 THEN Call("getActivity")
         ELSE IF step = 2 THEN Call("getActivityStreams")
         ELSE Return(Value("heartrate_data", acc.id, TRUE))
    [] op = "getActivityLapsWithData" ->
         IF step = 1 THEN Call("getActivity")
         ELSE IF step = 2 THEN Call("getActivityLaps")
         ELSE IF step = 3 THEN Call("getActivityStreams")
         ELSE Return(Value("laps_data", acc.id, TRUE))

\* what the apiCall of a composite operation does next; step counts the
\* awaited operations so far and acc is the value of the last one
BodyNext(op, step, acc) ==
  CASE op = "getActivitiesByDate" ->
         IF step = 1 THEN Call("getActivities") ELSE Return(acc)
    [] op = "getRecentActivitiesWithHeartRate" ->
         IF step = 1 THEN Call("getActivitiesByDate")
         ELSE Return(Value("recent_with_hr", acc.id, acc.flag))
    [] op = "getHeartRateData" ->
         IF step = 1 THEN Call("getActivity")
         ELSE IF step = 2
         THEN IF ~acc.flag THEN Return(Value("no_heartrate", acc.id, FALSE))
              ELSE Call("getActivityStreams")
         ELSE Return(Value("heartrate_data", acc.id, TRUE))
    [] op = "getActivityLapsWithData" ->
         IF step = 1 THEN Call("getActivity")
         ELSE IF step = 2 THEN Call("getActivityLaps")
         ELSE IF step = 3
         THEN IF ~acc.flag THEN Return(Value("no_laps", acc.id, FALSE))
              ELSE Call("getActivityStreams")
         ELSE Return(Value("laps_data", acc.id, TRUE))

(***************************************************************************)
(* Call stacks.  A frame is one execution of handleApiCall (kind "call")   *)
(* or of refreshAccessToken (kind "refresh").  calls, refreshes, outs,     *)
(* rout, posted and fout record what the execution has done so far.        *)
(***************************************************************************)
DefaultHandle == << "strava" >>

NoTok == << "-" >>

CallFrame(op) ==
  [kind |-> "call", op |-> op, phase |-> "try1", step |-> 1, acc |-> NoVal,
   err1 |-> NoVal, calls |-> 0, refreshes |-> 0, outs |-> << >>,
   rout |-> "none", tok |-> NoTok, pc |-> "-", resp |-> 0,
   readc |-> EmptyStr, towrite |-> EmptyStr, posted |-> 0, fout |-> "none", ret |-> NoVal]

RefreshFrame ==
  [kind |-> "refresh", op |-> "refreshAccessToken", phase |-> "-", step |-> 0,
   acc |-> NoVal, err1 |-> NoVal, calls |-> 0, refreshes |-> 0,
   outs |-> << >>, rout |-> "none", tok |-> NoTok,
   pc |-> "start", resp |-> 0, readc |-> EmptyStr, towrite |-> EmptyStr, posted |-> 0,
   fout |-> "none", ret |-> NoVal]

\* a task between two suspension points
NewTask ==
  [client |-> DefaultHandle, stack |-> << >>, done |-> << >>,
   reqs |-> 0, refs |-> 0, allUnauth |-> TRUE, result |-> NoVal,
   wrote |-> 0]

Top(ts) == ts.stack[Len(ts.stack)]

SetTop(ts, f) == [ts EXCEPT !.stack[Len(ts.stack)] = f]

Push(ts, f) == [ts EXCEPT !.stack = Append(@, f)]

Pop(ts) == [ts EXCEPT !.stack = SubSeq(@, 1, Len(@) - 1)]


(***************************************************************************)
(* The synchronous continuation of a task: everything it runs between two  *)
(* suspension points (a remote request, the token request, the read and    *)
(* the write of the .env file).  ts is the task, e is process.env.         *)
(***************************************************************************)
RECURSIVE StartFn(_, _), RunBody(_, _), SendRequest(_, _), FnOutcome(_, _, _),
          FrameReturn(_, _, _), AfterRefresh(_, _, _), StartRefresh(_, _)

\* variant: only the refresh token is required
MissingRefreshTokenOnly(e) == e.refresh = EmptyStr

\* refreshAccessToken, line 46
MissingCredentials(e) ==
  \/ e.refresh = EmptyStr
  \/ e.clientId = EmptyStr
  \/ e.clientSecret = EmptyStr

\* refreshAccessToken up to its first await (lines 42-57)
StartRefresh(ts, e) ==
  Only({
    LET g == Top(s) IN
    IF MissingCredentials(e)
    THEN FrameReturn(SetTop(s, [g EXCEPT !.rout = "missing_credentials"]), e,
                     Error("missing_credentials", 0, 0))
    ELSE SetTop(s, [g EXCEPT !.pc = "post", !.posted = 1])
  : s \in {ts} })

\* the token a request of operation op is sent with: getActivityLaps reads
\* process.env.STRAVA_ACCESS_TOKEN, the others use this.client
RequestToken(ts, e, op) ==
  IF op = "getActivityLaps" THEN e.access ELSE ts.client

\* a leaf apiCall up to its await
SendRequest(ts, e) ==
  Only({
    LET f == Top(s) IN
    IF f.op = "getActivityLaps" /\ e.access = EmptyStr
    THEN FnOutcome([s EXCEPT !.allUnauth = FALSE], e,
                   Error("no_access_token_in_env", 0, 0))
    ELSE SetTop([s EXCEPT !.reqs = @ + 1],
                [f EXCEPT !.pc = "remote", !.tok = RequestToken(s, e, f.op)])
  : s \in {ts} })

\* the body of apiCall from the current step on
RunBody(ts, e) ==
  Only({
    LET f == Top(s) IN
    IF f.op \in LeafOps THEN SendRequest(s, e)
    ELSE LET n == BodyNext(f.op, f.step, f.acc) IN
         IF n.do = "call"
         THEN StartFn(Push(s, CallFrame(n.op)), e)
         ELSE FnOutcome(s, e, n.val)
  : s \in {ts} })

\* handleApiCall invokes apiCall() (lines 141 and 151)
StartFn(ts, e) ==
  Only({
    LET f == Top(s) IN
    RunBody(SetTop(s, [f EXCEPT !.calls = @ + 1, !.step = 1, !.acc = NoVal]), e)
  : s \in {ts} })

\* variant: a 401 of the second attempt refreshes again
ShouldRefreshAgain(f, o) == isAuthError(o)

\* handleApiCall, line 144: only the catch of the first attempt refreshes
ShouldRefresh(f, o) == f.phase = "try1" /\ isAuthError(o)

\* variant: the catch of the second attempt throws the error it caught
FnOutcomeThrowsLatest(ts, e, o) ==
  LET f  == Top(ts)
      f1 == [f EXCEPT !.outs = Append(@, o), !.pc = "-",
                      !.err1 = IF f.phase = "try1" /\ o.kind = "error"
                               THEN o ELSE @]
  IN IF o.kind = "value" THEN FrameReturn(SetTop(ts, f1), e, o)
     ELSE IF ShouldRefresh(f, o)
     THEN StartRefresh(
            Push(SetTop([ts EXCEPT !.refs = @ + 1],
                        [f1 EXCEPT !.phase = "refreshing", !.refreshes = @ + 1]),
                 RefreshFrame), e)
     ELSE FrameReturn(SetTop(ts, f1), e, o)

\* handleApiCall, lines 141-160: apiCall() settled with o
FnOutcome(ts, e, o) ==
  Only({
    LET f  == Top(s)
        f1 == [f EXCEPT !.outs = Append(@, o), !.pc = "-",
                        !.err1 = IF f.phase = "try1" /\ o.kind = "error"
                                 THEN o ELSE @]
    IN IF o.kind = "value" THEN FrameReturn(SetTop(s, f1), e, o)
       ELSE IF ShouldRefresh(f, o)
       THEN StartRefresh(
              Push(SetTop([s EXCEPT !.refs = @ + 1],
                          [f1 EXCEPT !.phase = "refreshing", !.refreshes = @ + 1]),
                   RefreshFrame), e)
       ELSE FrameReturn(SetTop(s, f1), e, f1.err1)
  : s \in {ts} })

\* variant: gives up after the refresh instead of calling apiCall again
AfterRefreshNoRetry(ts, e, r) ==
  LET p == Top(ts) IN
  FrameReturn(SetTop(ts, [p EXCEPT !.rout = IF r.kind = "value" THEN "ok"
                                             ELSE r.what]), e, p.err1)

\* variant: calls apiCall again although the refresh failed
AfterRefreshRetryAnyway(ts, e, r) ==
  LET p == Top(ts) IN
  StartFn(SetTop(ts, [p EXCEPT !.rout = IF r.kind = "value" THEN "ok"
                                         ELSE r.what,
                               !.phase = "try2"]), e)

\* variant: after the refresh settled handleApiCall neither calls apiCall
\* again nor throws: it stays suspended
AfterRefreshNeverResumes(ts, e, r) ==
  LET p == Top(ts) IN
  SetTop(ts, [p EXCEPT !.rout = IF r.kind = "value" THEN "ok" ELSE r.what])

\* handleApiCall, lines 147-155: refreshAccessToken() settled with r
AfterRefresh(ts, e, r) ==
  Only({
    LET p == Top(s) IN
    IF r.kind = "value"
    THEN StartFn(SetTop(s, [p EXCEPT !.rout = "ok", !.phase = "try2"]), e)
    ELSE FrameReturn(SetTop(s, [p EXCEPT !.rout = r.what]), e, p.err1)
  : s \in {ts} })

\* the top frame settles with r: its caller continues
FrameReturn(ts, e, r) ==
  Only({
    LET f   == Top(s)
        ts1 == [Pop(s) EXCEPT !.done = Append(@, [f EXCEPT !.ret = r])]
    IN IF Len(ts1.stack) = 0 THEN [ts1 EXCEPT !.result = r]
       ELSE LET p == Top(ts1) IN
            IF p.phase = "refreshing" THEN AfterRefresh(ts1, e, r)
            ELSE IF r.kind = "error" THEN FnOutcome(ts1, e, r)
            ELSE RunBody(SetTop(ts1, [p EXCEPT !.step = @ + 1, !.acc = r]), e)
  : s \in {ts} })


(***************************************************************************)
(* refreshAccessToken after the token endpoint answered                    *)
(***************************************************************************)
\* variant: the refresh token is not stored together with the access token
StoreAccessTokenOnly(e, k) == [e EXCEPT !.access = AccessTok(k)]

\* lines 68-69: both assignments run without an await between them
StoreTokens(e, k) ==
  [e EXCEPT !.access = AccessTok(k), !.refresh = RefreshTok(k)]

\* the answers of the token endpoint: a pair of fresh tokens, a response
\* without one of the tokens, a rejection (error with a response) or a
\* transport failure (error without response)
TokenAnswers ==
  [kind : {"pair"}, k : 1..NumPairs]
    \cup [kind : {"no_access_token", "no_refresh_token", "rejected", "network"},
          k : {0}]

\* lines 80-90: the error refreshAccessToken throws for a failed exchange
RefreshError(a) ==
  IF a.kind = "rejected" THEN Error("strava_api_error", 0, 0)
  ELSE Error("failed_to_refresh", 0, 0)

\* variant: a failed file update makes refreshAccessToken throw
FinishRefreshThrowing(ts, e, fout) ==
  LET g == Top(ts) IN
  IF fout = "written"
  THEN FrameReturn(SetTop([ts EXCEPT !.client = AccessTok(g.resp)],
                          [g EXCEPT !.rout = "ok", !.fout = fout, !.pc = "-"]),
                   e, Value("access_token", g.resp, TRUE))
  ELSE FrameReturn(SetTop(ts, [g EXCEPT !.rout = fout, !.fout = fout, !.pc = "-"]),
                   e, Error("failed_to_refresh", 0, 0))

\* variant: refreshAccessToken returns without rebuilding this.client
FinishRefreshKeepsHandle(ts, e, fout) ==
  LET g == Top(ts) IN
  FrameReturn(SetTop(ts, [g EXCEPT !.rout = "ok", !.fout = fout, !.pc = "-"]),
              e, Value("access_token", g.resp, TRUE))

\* lines 74-79 after updateTokensInEnvFile returned; fout says how the file
\* update ended ("written", "read_failed", "write_failed"): the catch of
\* lines 127-130 swallows the failures
FinishRefresh(ts, e, fout) ==
  Only({
    LET g == Top(s) IN
    FrameReturn(SetTop([s EXCEPT !.client = AccessTok(g.resp)],
                       [g EXCEPT !.rout = "ok", !.fout = fout, !.pc = "-"]),
                e, Value("access_token", g.resp, TRUE))
  : s \in {ts} })

(***************************************************************************)
(* Initial states                                                          *)
(***************************************************************************)
ClientId == << "i" >>

ClientSecret == << "s" >>

FullEnv ==
  [access |-> AccessTok(0), refresh |-> RefreshTok(0),
   clientId |-> ClientId, clientSecret |-> ClientSecret]

\* process.env as dotenv.config() can leave it: complete, or with one of
\* the variables unset
InitEnvs ==
  { FullEnv,
    [FullEnv EXCEPT !.access = EmptyStr],
    [FullEnv EXCEPT !.refresh = EmptyStr],
    [FullEnv EXCEPT !.clientId = EmptyStr],
    [FullEnv EXCEPT !.clientSecret = EmptyStr] }

NoStore == [task |-> "-", k |-> 0]

\* .env files the API specification starts from
InitFiles ==
  { Join(<< AccessLine(AccessTok(0)), RefreshLine(RefreshTok(0)),
            << "i", EQ, "1" >> >>) \o << NL >>,
    Join(<< << SP, "x", EQ, "1" >>, AccessLine(AccessTok(0)) >>) }

InitWith(files, envs) ==
  /\ env \in envs
  /\ envFile \in files
  /\ task = [t \in Tasks |-> NewTask]
  /\ started = [t \in Tasks |-> FALSE]
  /\ lastStore = NoStore
  /\ done = << >>
  /\ env0 = env
  /\ zones = NoZones

Init == InitWith(InitFiles, InitEnvs)

(***************************************************************************)
(* Actions: one per suspension point                                       *)
(***************************************************************************)
\* the task as it suspends or ends; ts.done holds what settled in this step
Commit(t, ts) ==
  /\ task' = [task EXCEPT ![t] = [ts EXCEPT !.done = << >>]]
  /\ done' = [d \in 1..Len(ts.done) |-> [rec |-> ts.done[d], task |-> t]]

\* the operations a caller can start on a task in the API specification
PublicOps == LeafOps \cup CompositeOps \cup {"refreshAccessToken"}

\* the operations of the two concurrent callers of the concurrency
\* specification
ConcurrentOps == {"getAthlete", "getActivityLaps", "refreshAccessToken"}

\* a tool handler creates a StravaClient (constructor, line 18) and calls op
Invoke(t, op) ==
  /\ task[t].stack = << >>
  /\ ~started[t]
  /\ started' = [started EXCEPT ![t] = TRUE]
  /\ Commit(t, IF op = "refreshAccessToken"
               THEN StartRefresh(Push(NewTask, RefreshFrame), env)
               ELSE StartFn(Push(NewTask, CallFrame(op)), env))
  /\ UNCHANGED << env, envFile, lastStore, env0, zones >>

\* the answers of the remote API to request number id of operation op
RemoteAnswers(op, id) ==
  { Value("remote", id, b) : b \in (IF op \in FlagOps THEN BOOLEAN ELSE {TRUE}) }
    \cup { Error("remote", st, id) : st \in {401, 500, 0} }

\* the remote API answers the pending request of task t
RemoteResponds(t) ==
  /\ task[t].stack # << >>
  /\ Top(task[t]).pc = "remote"
  /\ \E o \in RemoteAnswers(Top(task[t]).op, task[t].reqs) :
       Commit(t, FnOutcome([task[t] EXCEPT
                              !.allUnauth = @ /\ isAuthError(o)], env, o))
  /\ UNCHANGED << env, envFile, started, lastStore, env0, zones >>

\* variant: the access token of the response is put into process.env before
\* the response is checked for the refresh token
TokenEndpointRespondsStoringFirst(t) ==
  /\ task[t].stack # << >>
  /\ Top(task[t]).pc = "post"
  /\ \E a \in TokenAnswers :
       IF a.kind = "pair"
       THEN /\ env' = StoreTokens(env, a.k)
            /\ lastStore' = [task |-> t, k |-> a.k]
            /\ Commit(t, SetTop(task[t],
                                [Top(task[t]) EXCEPT !.resp = a.k, !.pc = "read"]))
       ELSE /\ Commit(t, FrameReturn(
                 SetTop([task[t] EXCEPT !.allUnauth = FALSE],
                        [Top(task[t]) EXCEPT !.rout = a.kind, !.pc = "-"]),
                 env, RefreshError(a)))
            /\ env' = IF a.kind = "no_refresh_token"
                      THEN [env EXCEPT !.access = AccessTok(NumPairs)]
                      ELSE env
            /\ UNCHANGED lastStore
  /\ UNCHANGED << envFile, started, env0, zones >>

\* axios.post settles (lines 52-72, 80-90)
TokenEndpointResponds(t) ==
  /\ task[t].stack # << >>
  /\ Top(task[t]).pc = "post"
  /\ \E a \in TokenAnswers :
       IF a.kind = "pair"
       THEN /\ env' = StoreTokens(env, a.k)
            /\ lastStore' = [task |-> t, k |-> a.k]
            /\ Commit(t, SetTop(task[t],
                                [Top(task[t]) EXCEPT !.resp = a.k, !.pc = "read"]))
       ELSE /\ Commit(t, FrameReturn(
                 SetTop([task[t] EXCEPT !.allUnauth = FALSE],
                        [Top(task[t]) EXCEPT !.rout = a.kind, !.pc = "-"]),
                 env, RefreshError(a)))
            /\ UNCHANGED << env, lastStore >>
  /\ UNCHANGED << envFile, started, env0, zones >>

\* fs.readFile settles (lines 100-125, 127-130)
ReadFileCompletes(t) ==
  /\ task[t].stack # << >>
  /\ Top(task[t]).pc = "read"
  /\ LET g == Top(task[t]) IN
     \/ Commit(t, SetTop(task[t],
          [g EXCEPT !.pc = "write", !.readc = envFile,
                    !.towrite = UpdatedEnvContent(envFile, AccessTok(g.resp),
                                                  RefreshTok(g.resp))]))
     \/ Commit(t, FinishRefresh(task[t], env, "read_failed"))
  /\ UNCHANGED << env, envFile, started, lastStore, env0, zones >>

\* fs.writeFile settles (lines 125-130)
WriteFileCompletes(t) ==
  /\ task[t].stack # << >>
  /\ Top(task[t]).pc = "write"
  /\ LET g == Top(task[t]) IN
     \/ /\ envFile' = g.towrite
        /\ Commit(t, FinishRefresh([task[t] EXCEPT !.wrote = g.resp],
                                   env, "written"))
     \/ /\ Commit(t, FinishRefresh(task[t], env, "write_failed"))
        /\ UNCHANGED envFile
  /\ UNCHANGED << env, started, lastStore, env0, zones >>

\* one caller, every public operation
Next ==
  \/ \E op \in PublicOps : Invoke("t1", op)
  \/ RemoteResponds("t1")
  \/ TokenEndpointResponds("t1")
  \/ ReadFileCompletes("t1")
  \/ WriteFileCompletes("t1")

Spec == Init /\ [][Next]_vars

\* two concurrent callers
NextConc ==
  \E t \in Tasks :
    \/ \E op \in ConcurrentOps : Invoke(t, op)
    \/ RemoteResponds(t)
    \/ TokenEndpointResponds(t)
    \/ ReadFileCompletes(t)
    \/ WriteFileCompletes(t)

SpecConc == Init /\ [][NextConc]_vars

\* one caller whose outstanding requests are all answered: every attempt of
\* the wrapped function, the token exchange, the read and the write of the
\* .env file settle
Responsive ==
  /\ WF_vars(RemoteResponds("t1"))
  /\ WF_vars(TokenEndpointResponds("t1"))
  /\ WF_vars(ReadFileCompletes("t1"))
  /\ WF_vars(WriteFileCompletes("t1"))

SpecResponsive == Init /\ [][Next]_vars /\ Responsive


(***************************************************************************)
(* The persisted store on its own: refreshAccessToken called directly      *)
(* (scripts/refresh-token.ts) on every .env file of up to MaxLines lines   *)
(***************************************************************************)
LineTemplates ==
  { << "x", EQ, "1" >>,
    << SP, "x", EQ, "1" >>,
    << "y", EQ, "2", SP >>,
    << SP >>,
    << >>,
    AccessLine(AccessTok(0)),
    RefreshLine(RefreshTok(0)),
    << SP, "A", EQ, "a", "9" >>,
    << "R", SP, EQ, "r", "9" >> }

RECURSIVE LineSeqs(_)
LineSeqs(n) ==
  IF n = 0 THEN { << >> }
  ELSE LET shorter == LineSeqs(n - 1) IN
       shorter \cup { Append(ls, l) : ls \in { x \in shorter : Len(x) = n - 1 },
                                      l \in LineTemplates }

\* every file of up to MaxLines lines, with and without a final newline
StoreFiles ==
  { Join(ls) : ls \in LineSeqs(MaxLines) }
    \cup { Join(ls) \o << NL >> : ls \in LineSeqs(MaxLines) }

InitStore == InitWith(StoreFiles, {FullEnv})

NextStore ==
  \/ Invoke("t1", "refreshAccessToken")
  \/ TokenEndpointResponds("t1")
  \/ ReadFileCompletes("t1")
  \/ WriteFileCompletes("t1")

SpecStore == InitStore /\ [][NextStore]_vars

(***************************************************************************)
(* Reading the store back: dotenv.config() at the next start               *)
(***************************************************************************)
\* characters of a key name (\w . -)
KeyChar(c) == ~IsSpace(c) /\ c # EQ

RECURSIVE KeyEnd(_, _)
KeyEnd(s, i) ==
  IF i > Len(s) THEN i - 1
  ELSE IF KeyChar(s[i]) THEN KeyEnd(s, i + 1) ELSE i - 1

NoAssignment == [key |-> EmptyStr, val |-> EmptyStr]

\* one line: optional white space, key, optional white space, '=', value
\* with the white space around it removed
DotenvLine(line) ==
  LET l  == TrimStart(line)
      n  == KeyEnd(l, 1)
      r  == TrimStart(SubSeq(l, n + 1, Len(l)))
  IN IF n >= 1 /\ Len(r) >= 1 /\ r[1] = EQ
     THEN [key |-> SubSeq(l, 1, n), val |-> Trim(SubSeq(r, 2, Len(r)))]
     ELSE NoAssignment

Undefined == << "undefined" >>

\* the value the parsed file gives key: a later assignment overrides
RECURSIVE DotenvScan(_, _, _, _)
DotenvScan(lines, i, key, cur) ==
  IF i > Len(lines) THEN cur
  ELSE LET a == DotenvLine(lines[i]) IN
       DotenvScan(lines, i + 1, key, IF a.key = key THEN a.val ELSE cur)

DotenvGet(content, key) == DotenvScan(Split(content), 1, key, Undefined)

ACCESS_KEY == << "A" >>

REFRESH_KEY == << "R" >>


(***************************************************************************)
(* Vocabulary of the properties                                            *)
(***************************************************************************)
\* the executions of handleApiCall / refreshAccessToken that settled in the
\* last step
DoneCalls == { i \in 1..Len(done) : done[i].rec.kind = "call" }

DoneRefreshes == { i \in 1..Len(done) : done[i].rec.kind = "refresh" }

\* an error whose response has status 401
Unauthorized(o) == o.kind = "error" /\ o.status = 401

\* every handleApiCall execution still on a stack
LiveCalls ==
  { f \in UNION { { task[t].stack[i] : i \in 1..Len(task[t].stack) } : t \in Tasks } :
      f.kind = "call" }

LiveRefreshes ==
  { f \in UNION { { task[t].stack[i] : i \in 1..Len(task[t].stack) } : t \in Tasks } :
      f.kind = "refresh" }

\* C1: when the first attempt of the wrapped function fails with a 401 and
\* the refresh succeeds, the function is invoked exactly twice, the refresh
\* exactly once, and a successful second attempt is what the call returns.
C1_RetryOnceAfterAuthError ==
  \A i \in DoneCalls :
    LET d == done[i].rec IN
    (Unauthorized(d.outs[1]) /\ d.rout = "ok") =>
      /\ d.calls = 2
      /\ Len(d.outs) = 2
      /\ d.refreshes = 1
      /\ (d.outs[2].kind = "value" => d.ret = d.outs[2])

C1_Witness ==
  \E i \in DoneCalls :
    LET d == done[i].rec IN
    /\ Unauthorized(d.outs[1]) /\ d.rout = "ok"
    /\ d.calls = 2 /\ d.refreshes = 1
    /\ d.outs[2].kind = "value" /\ d.ret = d.outs[2]

\* C2: when the wrapped function fails with an error that is not a 401
\* (another status, or no response at all), no refresh is invoked, the
\* function is invoked exactly once and the very same error reaches the caller.
C2_NonAuthErrorPropagates ==
  \A i \in DoneCalls :
    LET d == done[i].rec IN
    (d.outs[1].kind = "error" /\ ~Unauthorized(d.outs[1])) =>
      /\ d.refreshes = 0
      /\ d.calls = 1
      /\ Len(d.outs) = 1
      /\ d.ret = d.outs[1]

C2_Witness ==
  \E i \in DoneCalls :
    LET d == done[i].rec IN
    /\ d.outs[1].kind = "error" /\ d.outs[1].status = 500
    /\ d.ret = d.outs[1] /\ d.calls = 1 /\ d.refreshes = 0

\* C3: one execution of handleApiCall invokes the wrapped function at most
\* twice and the refresh at most once; a second invocation happens only
\* after a 401 and one refresh; when the first attempt succeeds the function
\* ran once, nothing was refreshed and its value is returned unchanged.
C3_TwoStateMachine ==
  /\ \A f \in LiveCalls :
       /\ f.calls \in {1, 2} /\ f.refreshes \in {0, 1}
       /\ (f.phase = "try1" => f.calls = 1 /\ f.refreshes = 0)
       /\ (f.phase = "refreshing" => f.calls = 1 /\ f.refreshes = 1)
       /\ (f.phase = "try2" => f.calls = 2 /\ f.refreshes = 1)
  /\ \A i \in DoneCalls :
       LET d == done[i].rec IN
       /\ d.calls \in {1, 2} /\ d.refreshes \in {0, 1}
       /\ Len(d.outs) = d.calls
       /\ (d.calls = 2 => Unauthorized(d.outs[1]) /\ d.refreshes = 1)
       /\ (d.outs[1].kind = "value" =>
             d.calls = 1 /\ d.refreshes = 0 /\ d.ret = d.outs[1])

\* the single retry is exhausted by a second failure
C3_Witness ==
  \E i \in DoneCalls :
    LET d == done[i].rec IN
    /\ d.calls = 2 /\ d.refreshes = 1
    /\ Unauthorized(d.outs[2]) /\ d.ret.kind = "error"


\* C4 (as claimed): whatever the public operation, when the remote answers
\* every request with a 401 and every refresh succeeds, the operation has
\* performed exactly one refresh and sent exactly two requests when the
\* authorization error reaches its caller.
C4_RecoveredOncePerRequest ==
  \A t \in Tasks :
    (task[t].result.kind = "error" /\ task[t].allUnauth /\ task[t].reqs >= 1) =>
      /\ task[t].refs = 1
      /\ task[t].reqs = 2

\* C5: when the first attempt fails with a 401 and refreshAccessToken then
\* throws (credentials missing, endpoint rejection or transport failure,
\* response lacking a token), the enclosing handleApiCall ends in that very
\* step with one invocation of the function, one refresh and an error.
C5_FailedRefreshNotRetried ==
  \A i \in DoneRefreshes :
    done[i].rec.ret.kind = "error" =>
      IF i < Len(done)
      THEN LET d == done[i + 1].rec IN
           /\ d.kind = "call" /\ Unauthorized(d.outs[1])
           /\ d.calls = 1 /\ Len(d.outs) = 1
           /\ d.refreshes = 1
           /\ d.ret.kind = "error"
      ELSE task[done[i].task].stack = << >>

C5_Witness ==
  \E i \in DoneRefreshes :
    /\ done[i].rec.ret.kind = "error"
    /\ done[i].rec.rout = "no_refresh_token"
    /\ i < Len(done)
    /\ done[i + 1].rec.calls = 1 /\ done[i + 1].rec.ret.kind = "error"

\* one of the three refresh credentials is unset or empty in process.env
CredentialsIncomplete ==
  env.refresh = << >> \/ env.clientId = << >> \/ env.clientSecret = << >>

\* C6: while the refresh token, the client id or the client secret is
\* missing, no refreshAccessToken execution has sent or is sending a request
\* to the token endpoint, and every one that ended threw the
\* missing-credentials error.
C6_MissingCredentialsFailFast ==
  CredentialsIncomplete =>
    /\ \A g \in LiveRefreshes : g.posted = 0 /\ g.pc # "post"
    /\ \A i \in DoneRefreshes :
         /\ done[i].rec.posted = 0
         /\ done[i].rec.ret = Error("missing_credentials", 0, 0)

C6_Witness ==
  /\ env.clientSecret = << >>
  /\ env.refresh # << >>
  /\ \E i \in DoneRefreshes :
       done[i].rec.posted = 0 /\ done[i].rec.ret.what = "missing_credentials"

\* the in-memory tokens are the pair process.env started with or the two
\* tokens of one response
PairCoherent ==
  \/ env.access = env0.access /\ env.refresh = env0.refresh
  \/ \E k \in 1..NumPairs :
       env.access = AccessTok(k) /\ env.refresh = RefreshTok(k)

\* C7 (as claimed): in every state the in-memory tokens are a coherent pair,
\* and when a refresh returns they are the pair of its own response.
C7_OwnPairAfterReturn ==
  /\ PairCoherent
  /\ \A i \in DoneRefreshes :
       done[i].rec.ret.kind = "value" =>
         /\ env.access = AccessTok(done[i].rec.resp)
         /\ env.refresh = RefreshTok(done[i].rec.resp)

\* C7 (amended): in every state the in-memory tokens are a coherent pair:
\* the initial one until a response arrives, then the pair of the response
\* received last; when a refresh returns they are the pair of its own
\* response unless another refresh received a response after it did.
C7_AtomicPairReplacement ==
  /\ PairCoherent
  /\ (lastStore = NoStore =>
        env.access = env0.access /\ env.refresh = env0.refresh)
  /\ (lastStore # NoStore =>
        env.access = AccessTok(lastStore.k) /\ env.refresh = RefreshTok(lastStore.k))
  /\ \A i \in DoneRefreshes :
       (done[i].rec.ret.kind = "value" /\ lastStore.task = done[i].task) =>
         /\ env.access = AccessTok(done[i].rec.resp)
         /\ env.refresh = RefreshTok(done[i].rec.resp)

\* two refreshes in flight that received different pairs
C7_Witness ==
  /\ LET g1 == Top(task["t1"])
         g2 == Top(task["t2"]) IN
     /\ task["t1"].stack # << >> /\ task["t2"].stack # << >>
     /\ g1.kind = "refresh" /\ g2.kind = "refresh"
     /\ g1.pc \in {"read", "write"} /\ g2.pc \in {"read", "write"}
     /\ g1.resp # g2.resp
  /\ lastStore.task = "t2"
  /\ env.access = AccessTok(Top(task["t2"]).resp)
  /\ env.refresh = RefreshTok(Top(task["t2"]).resp)

\* C10: when the read or the write of the .env file fails during a refresh,
\* refreshAccessToken still returns the access token of its response, the
\* client handle is built from that token, and the in-memory tokens are the
\* pair of the response received last (its own unless another refresh
\* received one later).
C10_StoreFailureSwallowed ==
  \A i \in DoneRefreshes :
    LET d == done[i].rec IN
    (d.posted = 1 /\ d.resp # 0 /\ d.fout # "written") =>
      /\ d.fout \in {"read_failed", "write_failed"}
      /\ d.ret = Value("access_token", d.resp, TRUE)
      /\ task[done[i].task].client = AccessTok(d.resp)
      /\ env.access = AccessTok(lastStore.k)
      /\ env.refresh = RefreshTok(lastStore.k)
      /\ lastStore.k >= 1
      /\ (lastStore.task = done[i].task => lastStore.k = d.resp)

C10_Witness ==
  \E i \in DoneRefreshes :
    LET d == done[i].rec IN
    /\ d.fout = "write_failed"
    /\ d.ret = Value("access_token", d.resp, TRUE)
    /\ env.access = AccessTok(d.resp)
    /\ task[done[i].task].client = AccessTok(d.resp)


(***************************************************************************)
(* Properties of the persisted store                                       *)
(***************************************************************************)
\* the refreshes of the last step whose write-back succeeded
Written == { i \in DoneRefreshes : done[i].rec.fout = "written" }

IsTokenLine(l) == StartsWith(l, ACCESS_PREFIX) \/ StartsWith(l, REFRESH_PREFIX)

IsBlankLine(l) == \A j \in 1..Len(l) : IsSpace(l[j])

\* the lines of a store that are neither blank nor token lines
IsUnrelated(l) == ~IsTokenLine(l) /\ ~IsBlankLine(l)

Unrelated(content) == SelectSeq(Split(content), IsUnrelated)

IsKept(l) == ~IsBlankLine(l)

\* the lines of a store that are not blank
NonBlank(content) == SelectSeq(Split(content), IsKept)

HasLine(content, l) == \E j \in 1..Len(Split(content)) : Split(content)[j] = l

\* C8 (as claimed): after a successful write-back the unrelated lines are
\* the same lines in the same order, every line of the store that begins
\* with a token prefix carries the new value, and both token lines exist.
C8_UnrelatedLinesUnchanged ==
  \A i \in Written :
    LET d == done[i].rec
        out == Split(d.towrite) IN
    /\ envFile = d.towrite
    /\ Unrelated(d.towrite) = Unrelated(d.readc)
    /\ \A j \in 1..Len(out) :
         /\ StartsWith(out[j], ACCESS_PREFIX) =>
              out[j] = AccessLine(AccessTok(d.resp))
         /\ StartsWith(out[j], REFRESH_PREFIX) =>
              out[j] = RefreshLine(RefreshTok(d.resp))
    /\ HasLine(d.towrite, AccessLine(AccessTok(d.resp)))
    /\ HasLine(d.towrite, RefreshLine(RefreshTok(d.resp)))

\* a line as it is written at position j of n: the store as a whole is
\* trimmed, so its first line loses leading and its last line trailing space
EdgeTrimmed(l, j, n) ==
  LET l1 == IF j = 1 THEN TrimStart(l) ELSE l
  IN IF j = n THEN TrimEnd(l1) ELSE l1

\* C8 (amended): after a successful write-back the store consists of the
\* non-blank lines of the store read, in their order, where every line that
\* began with a token prefix is replaced by that key with the new value and
\* every other line is unchanged except that the first line of the file has
\* lost its leading and the last line its trailing white space, followed by
\* one appended line for each token key no line began with, and a final
\* newline.
C8_StoreRewrittenInPlace ==
  \A i \in Written :
    LET d   == done[i].rec
        a   == AccessLine(AccessTok(d.resp))
        r   == RefreshLine(RefreshTok(d.resp))
        nb  == NonBlank(d.readc)
        all == Split(d.towrite)
        n   == Len(all) - 1
        noA == \A j \in 1..Len(nb) : ~StartsWith(nb[j], ACCESS_PREFIX)
        noR == \A j \in 1..Len(nb) : ~StartsWith(nb[j], REFRESH_PREFIX)
    IN
    /\ envFile = d.towrite
    /\ all[Len(all)] = << >>
    /\ n = Len(nb) + (IF noA THEN 1 ELSE 0) + (IF noR THEN 1 ELSE 0)
    /\ \A j \in 1..Len(nb) :
         all[j] = IF StartsWith(nb[j], ACCESS_PREFIX) THEN a
                  ELSE IF StartsWith(nb[j], REFRESH_PREFIX) THEN r
                  ELSE EdgeTrimmed(nb[j], j, n)
    /\ (noA => all[Len(nb) + 1] = a)
    /\ (noR => all[n] = r)

\* a store with two unrelated lines and a refresh-token line but no
\* access-token line has been rewritten
C8_Witness ==
  \E i \in Written :
    LET d == done[i].rec IN
    /\ Len(Unrelated(d.readc)) = 2
    /\ HasLine(d.readc, RefreshLine(RefreshTok(0)))
    /\ ~HasLine(d.readc, AccessLine(AccessTok(0)))
    /\ Unrelated(d.towrite) = Unrelated(d.readc)
    /\ HasLine(envFile, AccessLine(AccessTok(d.resp)))
    /\ HasLine(envFile, RefreshLine(RefreshTok(d.resp)))

\* C9 (as claimed): whatever the store held, after a successful write-back
\* reading the store back gives the access token for the access-token key
\* and the refresh token for the refresh-token key.
C9_RoundTrip ==
  \A i \in Written :
    LET d == done[i].rec IN
    /\ DotenvGet(envFile, ACCESS_KEY) = AccessTok(d.resp)
    /\ DotenvGet(envFile, REFRESH_KEY) = RefreshTok(d.resp)

\* every line that assigns one of the token keys begins with KEY=
WellKeyed(content) ==
  \A j \in 1..Len(Split(content)) :
    LET l == Split(content)[j] IN
    /\ DotenvLine(l).key = ACCESS_KEY => StartsWith(l, ACCESS_PREFIX)
    /\ DotenvLine(l).key = REFRESH_KEY => StartsWith(l, REFRESH_PREFIX)

\* C9 (amended): when every line of the store that assigns a token key
\* begins with that key immediately followed by '=', then after a successful
\* write-back reading the store back gives the pair that was written.
C9_RoundTripWellKeyed ==
  \A i \in Written :
    LET d == done[i].rec IN
    WellKeyed(d.readc) =>
      /\ DotenvGet(envFile, ACCESS_KEY) = AccessTok(d.resp)
      /\ DotenvGet(envFile, REFRESH_KEY) = RefreshTok(d.resp)

\* a store that held the old access token and no refresh token is read back
C9_Witness ==
  \E i \in Written :
    LET d == done[i].rec IN
    /\ WellKeyed(d.readc)
    /\ DotenvGet(d.readc, ACCESS_KEY) = AccessTok(0)
    /\ DotenvGet(d.readc, REFRESH_KEY) = Undefined
    /\ d.resp = 2
    /\ DotenvGet(envFile, ACCESS_KEY) = AccessTok(2)
    /\ DotenvGet(envFile, REFRESH_KEY) = RefreshTok(2)


(***************************************************************************)
(* Heart-rate and power zones (zones-config.ts)                            *)
(***************************************************************************)
\* most zones of a drawn zone list
MaxZones == 3

\* a value that may be absent (undefined or null) is << >> or << value >>
None == << >>
Some(x) == << x >>
Has(o) == o # << >>
The(o) == o[1]

\* Math.round of num / den (den > 0): the nearest integer, halves upwards
Round(num, den) == (2 * num + den) \div (2 * den)

\* the max from which a zone has no upper limit: heart rate, power
HeartRateSentinel == 999
PowerSentinel == 9999

Sports == {"running", "cycling"}

\* one entry of a SportZones object; a sequence of them is the object, in
\* the insertion order Object.entries enumerates
Zone(name, min, max) == [name |-> name, min |-> min, max |-> max]

HeartRateZoneNames ==
  << "Zone 1", "Low Zone 2", "High Zone 2", "Zone 3", "Zone 4", "Zone 5" >>
PowerZoneNames ==
  << "Zone 1", "Zone 2", "Zone 3", "Zone 4", "Zone 5", "Zone 6" >>

\* the zones of getDefaultConfig: every boundary 0 but the last max
DefaultZones(names, sentinel) ==
  [i \in 1..Len(names) |->
     Zone(names[i], 0, IF i = Len(names) THEN sentinel ELSE 0)]

getDefaultConfig ==
  [ sports |-> Some([ running |-> Some(DefaultZones(HeartRateZoneNames,
                                                     HeartRateSentinel)),
                      cycling |-> Some(DefaultZones(HeartRateZoneNames,
                                                     HeartRateSentinel)) ]),
    metadata |-> Some([ defaultSport |-> "running",
                        autoCalculate |-> FALSE,
                        userSettings |->
                          Some([ running |-> Some([maxHeartRate |-> 0]),
                                 cycling |-> Some([maxHeartRate |-> 0]) ]) ]),
    powerZones |-> Some([ cycling |-> Some(DefaultZones(PowerZoneNames,
                                                        PowerSentinel)) ]),
    powerSettings |-> Some([ cycling |-> Some([ ftp |-> 0,
                                                autoCalculate |-> FALSE ]) ]) ]

\* variant of the test: below max
InZoneHalfOpen(v, zone, sentinel) ==
  v >= zone.min /\ (v < zone.max \/ zone.max >= sentinel)

\* the test of the scans: at or above min, and at or below max unless the
\* max is the sentinel
InZone(v, zone, sentinel) ==
  v >= zone.min /\ (v <= zone.max \/ zone.max >= sentinel)

\* the for loop over Object.entries(zones) from entry i on: the first entry
\* that passes the test, null when there is none
RECURSIVE FirstMatch(_, _, _, _)
FirstMatch(v, zs, i, sentinel) ==
  IF i > Len(zs) THEN None
  ELSE IF InZone(v, zs[i], sentinel) THEN Some(zs[i])
  ELSE FirstMatch(v, zs, i + 1, sentinel)

\* variant of the scan: the last entry that passes the test
RECURSIVE LastMatch(_, _, _, _)
LastMatch(v, zs, i, sentinel) ==
  IF i < 1 THEN None
  ELSE IF InZone(v, zs[i], sentinel) THEN Some(zs[i])
  ELSE LastMatch(v, zs, i - 1, sentinel)

getHeartRateZoneLastMatch(heartRate, sport, config) ==
  LET zs == The(The(config.sports)[sport])
  IN LastMatch(heartRate, zs, Len(zs), HeartRateSentinel)

getHeartRateZone(heartRate, sport, config) ==
  FirstMatch(heartRate, The(The(config.sports)[sport]), 1, HeartRateSentinel)

getPowerZone(power, config) ==
  IF ~Has(config.powerZones) \/ ~Has(The(config.powerZones).cycling)
  THEN None
  ELSE FirstMatch(power, The(The(config.powerZones).cycling), 1, PowerSentinel)

(***************************************************************************)
(* Classification on its own: getHeartRateZone and getPowerZone applied to *)
(* every zone list of up to MaxZones zones over a few boundaries           *)
(***************************************************************************)
Boundaries(sentinel) == {0, 1, 2, sentinel}

\* the readings classified: at, between and beyond the boundaries
Readings(sentinel) == {0, 1, 2, 3, sentinel, sentinel + 1}

\* every zone list of up to n zones, named in order
ZoneLists(n, names, sentinel) ==
  UNION { { [i \in 1..k |-> Zone(names[i], f[i][1], f[i][2])] :
              f \in [1..k -> Boundaries(sentinel) \X Boundaries(sentinel)] } :
          k \in 0..n }

\* the default configuration with the zones of one sport replaced
WithSportZones(sport, zs) ==
  [getDefaultConfig EXCEPT
     !.sports = Some([The(@) EXCEPT ![sport] = Some(zs)])]

\* the default configuration with the power zones replaced
WithPowerZones(zs) ==
  [getDefaultConfig EXCEPT !.powerZones = Some([cycling |-> Some(zs)])]

\* the API at rest
ApiAtRest ==
  /\ env = FullEnv
  /\ envFile = EmptyStr
  /\ task = [t \in Tasks |-> NewTask]
  /\ started = [t \in Tasks |-> FALSE]
  /\ lastStore = NoStore
  /\ done = << >>
  /\ env0 = env

\* one reading to classify: a heart rate against the zones of a sport, or a
\* power against the power zones (which may be absent); the zones are a
\* drawn list or those of the default configuration
InitClassify ==
  /\ ApiAtRest
  /\ \/ \E sp \in Sports, v \in Readings(HeartRateSentinel),
           zs \in ZoneLists(MaxZones, HeartRateZoneNames, HeartRateSentinel) :
          zones = [phase |-> "input", measure |-> "heartrate", sport |-> sp,
                   config |-> WithSportZones(sp, zs), reading |-> v]
     \/ \E v \in Readings(PowerSentinel),
           zs \in ZoneLists(MaxZones, PowerZoneNames, PowerSentinel) :
          zones = [phase |-> "input", measure |-> "power", sport |-> "cycling",
                   config |-> WithPowerZones(zs), reading |-> v]
     \/ \E v \in Readings(PowerSentinel) :
          zones = [phase |-> "input", measure |-> "power", sport |-> "cycling",
                   config |-> [getDefaultConfig EXCEPT !.powerZones = None],
                   reading |-> v]
     \/ \E sp \in Sports, v \in Readings(HeartRateSentinel) :
          zones = [phase |-> "input", measure |-> "heartrate", sport |-> sp,
                   config |-> getDefaultConfig, reading |-> v]
     \/ \E v \in Readings(PowerSentinel) :
          zones = [phase |-> "input", measure |-> "power", sport |-> "cycling",
                   config |-> getDefaultConfig, reading |-> v]

ClassifyHeartRate ==
  /\ zones.phase = "input"
  /\ zones.measure = "heartrate"
  /\ zones' = [ phase |-> "classified", measure |-> zones.measure,
                sport |-> zones.sport, config |-> zones.config,
                reading |-> zones.reading,
                result |-> getHeartRateZone(zones.reading, zones.sport,
                                            zones.config) ]
  /\ UNCHANGED << env, envFile, task, started, lastStore, done, env0 >>

ClassifyPower ==
  /\ zones.phase = "input"
  /\ zones.measure = "power"
  /\ zones' = [ phase |-> "classified", measure |-> zones.measure,
                sport |-> zones.sport, config |-> zones.config,
                reading |-> zones.reading,
                result |-> getPowerZone(zones.reading, zones.config) ]
  /\ UNCHANGED << env, envFile, task, started, lastStore, done, env0 >>

NextClassify ==
  \/ ClassifyHeartRate
  \/ ClassifyPower

SpecClassify == InitClassify /\ [][NextClassify]_vars


(***************************************************************************)
(* Loading the zone configuration (loadZonesConfig and its derivations)    *)
(***************************************************************************)
\* how a step ended, and the configuration object as it left it
Normal(config) == [threw |-> FALSE, config |-> config]
Thrown(config) == [threw |-> TRUE, config |-> config]

\* an object without any of the parts
EmptyConfig ==
  [sports |-> None, metadata |-> None, powerZones |-> None,
   powerSettings |-> None]

HasKey(zs, name) == \E i \in 1..Len(zs) : zs[i].name = name

\* zones[name].min = min; zones[name].max = max
WriteZone(zs, name, min, max) ==
  [i \in 1..Len(zs) |-> IF zs[i].name = name THEN Zone(name, min, max)
                        ELSE zs[i]]

\* config.sports.<sport>[name].min = min; ....max = max: a TypeError when
\* sports, the sport or the key is absent
SetSportZone(st, sport, name, min, max) ==
  IF st.threw THEN st
  ELSE LET c == st.config IN
       IF \/ ~Has(c.sports)
          \/ ~Has(The(c.sports)[sport])
          \/ ~HasKey(The(The(c.sports)[sport]), name)
       THEN Thrown(c)
       ELSE Normal([c EXCEPT !.sports =
              Some([The(@) EXCEPT ![sport] =
                      Some(WriteZone(The(@), name, min, max))])])

\* config.powerZones.cycling[name].min = min; ....max = max
SetPowerZone(st, name, min, max) ==
  IF st.threw THEN st
  ELSE LET c == st.config IN
       IF ~HasKey(The(The(c.powerZones).cycling), name)
       THEN Thrown(c)
       ELSE Normal([c EXCEPT !.powerZones =
              Some([cycling |->
                      Some(WriteZone(The(The(@).cycling), name, min, max))])])

\* Math.round(base * percent / 100)
Percent(base, percent) == Round(base * percent, 100)

\* the body shared by calculateRunningZones and calculateCyclingZones
calculateSportZones(config, sport) ==
  LET maxHR == The(The(The(config.metadata).userSettings)[sport]).maxHeartRate
      P(p) == Percent(maxHR, p)
      s1 == SetSportZone(Normal(config), sport, "Zone 1", P(50), P(60))
      s2 == SetSportZone(s1, sport, "Low Zone 2", P(60), P(65))
      s3 == SetSportZone(s2, sport, "High Zone 2", P(65), P(70))
      s4 == SetSportZone(s3, sport, "Zone 3", P(70), P(80))
      s5 == SetSportZone(s4, sport, "Zone 4", P(80), P(90))
  IN SetSportZone(s5, sport, "Zone 5", P(90), HeartRateSentinel)

calculateRunningZones(config) == calculateSportZones(config, "running")

calculateCyclingZones(config) == calculateSportZones(config, "cycling")

calculateCyclingPowerZones(config) ==
  IF \/ ~Has(config.powerZones)
     \/ ~Has(The(config.powerZones).cycling)
     \/ The(The(config.powerSettings).cycling).ftp = 0
  THEN Normal(config)
  ELSE LET ftp == The(The(config.powerSettings).cycling).ftp
           P(p) == Percent(ftp, p)
           s1 == SetPowerZone(Normal(config), "Zone 1", 0, P(55))
           s2 == SetPowerZone(s1, "Zone 2", P(56), P(75))
           s3 == SetPowerZone(s2, "Zone 3", P(76), P(90))
           s4 == SetPowerZone(s3, "Zone 4", P(91), P(105))
           s5 == SetPowerZone(s4, "Zone 5", P(106), P(120))
       IN SetPowerZone(s5, "Zone 6", P(121), PowerSentinel)

\* variant of the heart-rate derivations that does not look at the
\* auto-calculate flag
DeriveHeartRateZonesUngated(config) ==
  LET md == The(config.metadata) IN
  IF ~Has(md.userSettings) \/ ~Has(The(md.userSettings).running)
  THEN (IF md.autoCalculate THEN Thrown(config) ELSE Normal(config))
  ELSE LET r == IF The(The(md.userSettings).running).maxHeartRate > 0
                THEN calculateRunningZones(config)
                ELSE Normal(config)
       IN IF r.threw THEN r
          ELSE IF ~Has(The(md.userSettings).cycling) THEN Thrown(r.config)
          ELSE IF The(The(md.userSettings).cycling).maxHeartRate > 0
          THEN calculateCyclingZones(r.config)
          ELSE r

\* the heart-rate derivations of the try block (lines 461-468)
DeriveHeartRateZones(config) ==
  LET md == The(config.metadata) IN
  IF ~md.autoCalculate THEN Normal(config)
  ELSE IF ~Has(md.userSettings) \/ ~Has(The(md.userSettings).running)
  THEN Thrown(config)
  ELSE LET r == IF The(The(md.userSettings).running).maxHeartRate > 0
                THEN calculateRunningZones(config)
                ELSE Normal(config)
       IN IF r.threw THEN r
          ELSE IF ~Has(The(md.userSettings).cycling) THEN Thrown(r.config)
          ELSE IF The(The(md.userSettings).cycling).maxHeartRate > 0
          THEN calculateCyclingZones(r.config)
          ELSE r

\* the power derivation of the try block (lines 471-473)
DerivePowerZones(config) ==
  IF ~Has(config.powerSettings) THEN Normal(config)
  ELSE IF ~Has(The(config.powerSettings).cycling) THEN Thrown(config)
  ELSE LET cycling == The(The(config.powerSettings).cycling) IN
       IF cycling.autoCalculate /\ cycling.ftp > 0
       THEN calculateCyclingPowerZones(config)
       ELSE Normal(config)

\* the try block (lines 456-475): source.kind is "missing" when readFileSync
\* throws, "unparseable" when JSON.parse throws, "json" when it returns
\* source.value, which is None for null
TryLoad(source) ==
  IF source.kind # "json" THEN Thrown(EmptyConfig)
  ELSE IF ~Has(source.value) THEN Thrown(EmptyConfig)
  ELSE LET config == The(source.value) IN
       IF ~Has(config.metadata) THEN Thrown(config)
       ELSE LET h == DeriveHeartRateZones(config) IN
            IF h.threw THEN h ELSE DerivePowerZones(h.config)

\* variant without the catch block: the exception and the partly derived
\* object get out
loadZonesConfigUncaught(source) == TryLoad(source)

loadZonesConfig(source) ==
  LET attempt == TryLoad(source) IN
  IF attempt.threw THEN Normal(getDefaultConfig) ELSE attempt

(***************************************************************************)
(* Loading on its own: loadZonesConfig applied to every configuration      *)
(* source put together from present, absent and incomplete parts           *)
(***************************************************************************)
\* zones as a user enters them: ten apart, the last one open
ManualZones(names, sentinel) ==
  [i \in 1..Len(names) |->
     Zone(names[i], 100 + 10 * i,
          IF i = Len(names) THEN sentinel ELSE 110 + 10 * i)]

\* a zone list without the key name
Without(zs, name) ==
  LET Keep(z) == z.name # name IN SelectSeq(zs, Keep)

\* the states of a sport's heart-rate zones in a source
SourceSportZones ==
  { None, Some(<< >>),
    Some(ManualZones(HeartRateZoneNames, HeartRateSentinel)),
    Some(Without(ManualZones(HeartRateZoneNames, HeartRateSentinel),
                 "Zone 3")) }

SourceSports ==
  { None } \cup { Some([running |-> r, cycling |-> c]) :
                    r \in SourceSportZones, c \in SourceSportZones }

\* maximum heart rates of the user settings; 0 is "not set"
MaxHeartRates == {0, 185}

SourceSportSettings ==
  { None } \cup { Some([maxHeartRate |-> m]) : m \in MaxHeartRates }

SourceMetadata ==
  { None }
  \cup { Some([defaultSport |-> "running", autoCalculate |-> a,
               userSettings |-> u]) :
           a \in BOOLEAN,
           u \in { None } \cup { Some([running |-> r, cycling |-> c]) :
                                   r \in SourceSportSettings,
                                   c \in SourceSportSettings } }

SourcePowerZones ==
  { None, Some([cycling |-> None]),
    Some([cycling |-> Some(ManualZones(PowerZoneNames, PowerSentinel))]),
    Some([cycling |-> Some(Without(ManualZones(PowerZoneNames, PowerSentinel),
                                   "Zone 4"))]) }

\* functional threshold powers of the power settings; 0 is "not set"
Ftps == {0, 250}

SourcePowerSettings ==
  { None, Some([cycling |-> None]) }
  \cup { Some([cycling |-> Some([ftp |-> f, autoCalculate |-> a])]) :
           f \in Ftps, a \in BOOLEAN }

InitLoad ==
  /\ ApiAtRest
  /\ \/ \E k \in {"missing", "unparseable"} :
          zones = [phase |-> "input", source |-> [kind |-> k, value |-> None]]
     \/ zones = [phase |-> "input", source |-> [kind |-> "json", value |-> None]]
     \/ \E sp \in SourceSports, md \in SourceMetadata,
           pz \in SourcePowerZones, ps \in SourcePowerSettings :
          zones = [phase |-> "input",
                   source |-> [kind |-> "json",
                               value |-> Some([sports |-> sp, metadata |-> md,
                                               powerZones |-> pz,
                                               powerSettings |-> ps])]]

Load ==
  /\ zones.phase = "input"
  /\ zones' = [phase |-> "loaded", source |-> zones.source,
               outcome |-> loadZonesConfig(zones.source)]
  /\ UNCHANGED << env, envFile, task, started, lastStore, done, env0 >>

NextLoad == Load

SpecLoad == InitLoad /\ [][NextLoad]_vars

(***************************************************************************)
(* Zone analysis (StravaClient.analyzeHeartRateZones)                      *)
(***************************************************************************)
\* longest rising series of readings, longest series in any order
MaxReadings == 6
MaxAnyOrder == 3

\* intervals.reduce((a, b) => a + b, 0) over the differences from index i on
RECURSIVE SumOfIntervals(_, _)
SumOfIntervals(timeData, i) ==
  IF i > Len(timeData) THEN 0
  ELSE (timeData[i] - timeData[i - 1]) + SumOfIntervals(timeData, i + 1)

\* variant of the interval: the sum of the differences over the number of
\* samples
TimeIntervalPerSample(heartRateData, timeData) ==
  IF Len(timeData) = Len(heartRateData) /\ Len(timeData) > 1
  THEN [num |-> SumOfIntervals(timeData, 2), den |-> Len(timeData)]
  ELSE [num |-> 1, den |-> 1]

\* timeInterval (lines 495-503), as the fraction num / den
TimeInterval(heartRateData, timeData) ==
  IF Len(timeData) = Len(heartRateData) /\ Len(timeData) > 1
  THEN [num |-> SumOfIntervals(timeData, 2), den |-> Len(timeData) - 1]
  ELSE [num |-> 1, den |-> 1]

\* variant of the loop: a reading no zone takes is put in the last zone
RECURSIVE ZoneHeartRatesClamped(_, _, _, _, _)
ZoneHeartRatesClamped(heartRateData, sport, config, zoneName, i) ==
  IF i > Len(heartRateData) THEN << >>
  ELSE LET zs == The(The(config.sports)[sport])
           zoneResult == getHeartRateZone(heartRateData[i], sport, config)
           rest == ZoneHeartRatesClamped(heartRateData, sport, config,
                                         zoneName, i + 1)
       IN IF \/ Has(zoneResult) /\ The(zoneResult).name = zoneName
             \/ ~Has(zoneResult) /\ zs[Len(zs)].name = zoneName
          THEN << heartRateData[i] >> \o rest
          ELSE rest

\* zoneHeartRates[zoneName] after the loop of lines 506-516 has run from
\* reading i on: the readings put in the zone, in their order
RECURSIVE ZoneHeartRates(_, _, _, _, _)
ZoneHeartRates(heartRateData, sport, config, zoneName, i) ==
  IF i > Len(heartRateData) THEN << >>
  ELSE LET zoneResult == getHeartRateZone(heartRateData[i], sport, config)
           rest == ZoneHeartRates(heartRateData, sport, config, zoneName, i + 1)
       IN IF Has(zoneResult) /\ The(zoneResult).name = zoneName
          THEN << heartRateData[i] >> \o rest
          ELSE rest

RECURSIVE SumSeq(_)
SumSeq(q) == IF q = << >> THEN 0 ELSE Head(q) + SumSeq(Tail(q))

MinOf(q) == CHOOSE x \in { q[i] : i \in 1..Len(q) } :
              \A j \in 1..Len(q) : x <= q[j]

MaxOf(q) == CHOOSE x \in { q[i] : i \in 1..Len(q) } :
              \A j \in 1..Len(q) : x >= q[j]

\* variant of the percentage: rounded to whole percents
PercentageWhole(inZone, total) ==
  IF total > 0 THEN 10 * Round(100 * inZone, total) ELSE 0

\* Math.round(percentage * 10) / 10 (lines 524, 535), in tenths of a percent;
\* inZone and total are the two times over the same denominator
Percentage(inZone, total) ==
  IF total > 0 THEN Round(1000 * inZone, total) ELSE 0

\* variant of the row: every sample counted as one second
ZoneRowOneSecondSamples(zone, heartRates, interval, readings) ==
  LET points == Len(heartRates)
      sum == SumSeq(heartRates)
  IN [ zone_name |-> zone.name,
       zone_info |-> zone,
       time_seconds |-> points,
       time_minutes |-> Round(points * 10, 60),
       percentage |-> Percentage(points, readings),
       data_points |-> points,
       average_heart_rate |-> IF points > 0 /\ sum # 0
                              THEN Some(Round(sum, points)) ELSE None,
       min_heart_rate |-> IF points > 0 THEN Some(MinOf(heartRates)) ELSE None,
       max_heart_rate |-> IF points > 0 THEN Some(MaxOf(heartRates)) ELSE None ]

\* one row of zoneBreakdown (lines 522-540); times in tenths of a minute and
\* percentages in tenths of a percent
ZoneRow(zone, heartRates, interval, readings) ==
  LET points == Len(heartRates)
      sum == SumSeq(heartRates)
  IN [ zone_name |-> zone.name,
       zone_info |-> zone,
       time_seconds |-> Round(points * interval.num, interval.den),
       time_minutes |-> Round(points * interval.num * 10, interval.den * 60),
       percentage |-> Percentage(points * interval.num,
                                 readings * interval.num),
       data_points |-> points,
       average_heart_rate |-> IF points > 0 /\ sum # 0
                              THEN Some(Round(sum, points)) ELSE None,
       min_heart_rate |-> IF points > 0 THEN Some(MinOf(heartRates)) ELSE None,
       max_heart_rate |-> IF points > 0 THEN Some(MaxOf(heartRates)) ELSE None ]

\* variant of the sort: a row goes before the rows of its own percentage
RECURSIVE SortRowsTiesReversed(_, _, _)
SortRowsTiesReversed(rows, i, sorted) ==
  IF i > Len(rows) THEN sorted
  ELSE LET before == SelectSeq(sorted,
                       LAMBDA r : r.percentage > rows[i].percentage)
           after  == SelectSeq(sorted,
                       LAMBDA r : r.percentage <= rows[i].percentage)
       IN SortRowsTiesReversed(rows, i + 1,
                               before \o << rows[i] >> \o after)

\* Array.prototype.sort with (a, b) => b.percentage - a.percentage: stable,
\* the higher percentage first; the rows from i on put into a sorted list
RECURSIVE SortRows(_, _, _)
SortRows(rows, i, sorted) ==
  IF i > Len(rows) THEN sorted
  ELSE LET before == SelectSeq(sorted,
                       LAMBDA r : r.percentage >= rows[i].percentage)
           after  == SelectSeq(sorted,
                       LAMBDA r : r.percentage < rows[i].percentage)
       IN SortRows(rows, i + 1, before \o << rows[i] >> \o after)

\* !zones || Object.keys(zones).length === 0 (line 478)
NotConfigured(config, sport) ==
  \/ ~Has(The(config.sports)[sport])
  \/ The(The(config.sports)[sport]) = << >>

\* analyzeHeartRateZones; zonesConfig is an object at both call sites, so
\* that line 475 never loads one; config.sports[sport] is a TypeError when
\* the object has no sports; timeInterval is the local variable of that
\* name, kept with the result
analyzeHeartRateZones(heartRateData, sport, zonesConfig, timeData) ==
  IF Len(heartRateData) = 0 THEN [kind |-> "null"]
  ELSE IF ~Has(zonesConfig.sports) THEN [kind |-> "threw"]
  ELSE IF NotConfigured(zonesConfig, sport) THEN [kind |-> "error"]
  ELSE LET zs == The(The(zonesConfig.sports)[sport])
           interval == TimeInterval(heartRateData, timeData)
           readings == Len(heartRateData)
           zoneBreakdown ==
             [k \in 1..Len(zs) |->
                ZoneRow(zs[k],
                        ZoneHeartRates(heartRateData, sport, zonesConfig,
                                       zs[k].name, 1),
                        interval, readings)]
       IN [ kind |-> "breakdown",
            sport |-> sport,
            timeInterval |-> interval,
            total_time_seconds |-> Round(readings * interval.num,
                                         interval.den),
            total_time_minutes |-> Round(readings * interval.num * 10,
                                         interval.den * 60),
            zones |-> SortRows(zoneBreakdown, 1, << >>) ]

(***************************************************************************)
(* Analysis on its own: the zone analysis of getHeartRateData applied to   *)
(* series of readings, their time stream and a configuration source        *)
(***************************************************************************)
\* the readings of the series: small heart rates around the zones below
HeartRates == 0..6

\* six contiguous zones, the last one open
SixZones ==
  [i \in 1..6 |-> Zone(HeartRateZoneNames[i], i - 1,
                       IF i = 6 THEN HeartRateSentinel ELSE i)]

\* three zones with gaps below, between and above them, out of order
GappedZones ==
  << Zone("Zone 1", 1, 2), Zone("Zone 3", 5, 5), Zone("Zone 2", 3, 3) >>

\* the configuration of a source: the default one with other sports
WithSports(sports) == [getDefaultConfig EXCEPT !.sports = sports]

\* the sources analysed: no file; a file with six zones for running and
\* gapped zones for cycling; one with no zones for running and no cycling;
\* one without sports
AnalysisSources ==
  { [kind |-> "missing", value |-> None],
    [kind |-> "json",
     value |-> Some(WithSports(Some([running |-> Some(SixZones),
                                     cycling |-> Some(GappedZones)])))],
    [kind |-> "json",
     value |-> Some(WithSports(Some([running |-> Some(<< >>),
                                     cycling |-> None])))],
    [kind |-> "json", value |-> Some(WithSports(None))] }

\* the series of up to n readings that never fall
RECURSIVE RisingSeries(_)
RisingSeries(n) ==
  IF n = 0 THEN { << >> }
  ELSE LET shorter == RisingSeries(n - 1)
           longest == { q \in shorter : Len(q) = n - 1 }
       IN shorter \cup
          { Append(p[1], p[2]) :
              p \in { x \in longest \X HeartRates :
                        x[1] = << >> \/ x[2] >= x[1][Len(x[1])] } }

\* every series of up to n readings
AnySeries(n) == UNION { [1..k -> HeartRates] : k \in 0..n }


\* a time stream of n samples, step seconds apart
Steady(n, step) == [i \in 1..n |-> (i - 1) * step]

\* a time stream of n samples a second apart, the last one a second late
LastLate(n) == [i \in 1..n |-> IF i = n THEN i ELSE i - 1]

\* the time streams that come with n readings: steady, all at one instant,
\* uneven, absent, and one sample longer than the readings
TimeStreams(n) ==
  { Steady(n, 1), Steady(n, 0), LastLate(n), << >>, Steady(n + 1, 1) }

\* the activity of the test suite: ten readings ten seconds apart, analysed
\* for running against three zones that share their boundaries
ScenarioReadings == << 140, 145, 150, 155, 160, 165, 170, 175, 170, 165 >>
ScenarioZones ==
  << Zone("Zone1", 0, 140), Zone("Zone2", 140, 160), Zone("Zone3", 160, 200) >>
ScenarioSource ==
  [kind |-> "json",
   value |-> Some(WithSports(Some([running |-> Some(ScenarioZones),
                                   cycling |-> Some(ScenarioZones)])))]

InitAnalyze ==
  /\ ApiAtRest
  /\ \/ \E q \in RisingSeries(MaxReadings) \cup AnySeries(MaxAnyOrder),
           src \in AnalysisSources, sp \in Sports :
          \E t \in TimeStreams(Len(q)) :
            zones = [phase |-> "input", source |-> src, sport |-> sp,
                     heartRateData |-> q, timeData |-> t]
     \/ zones = [phase |-> "input", source |-> ScenarioSource,
                 sport |-> "running", heartRateData |-> ScenarioReadings,
                 timeData |-> Steady(10, 10)]

\* the zone analysis of getHeartRateData (lines 425-432)
Analyze ==
  /\ zones.phase = "input"
  /\ LET zonesConfig == loadZonesConfig(zones.source).config IN
     zones' = [phase |-> "analyzed", source |-> zones.source,
               sport |-> zones.sport, heartRateData |-> zones.heartRateData,
               timeData |-> zones.timeData, config |-> zonesConfig,
               analysis |-> analyzeHeartRateZones(zones.heartRateData,
                              zones.sport, zonesConfig, zones.timeData)]
  /\ UNCHANGED << env, envFile, task, started, lastStore, done, env0 >>

NextAnalyze == Analyze

SpecAnalyze == InitAnalyze /\ [][NextAnalyze]_vars

(***************************************************************************)
(* Power zones derived from the FTP: loadZonesConfig on a file whose power *)
(* derivation is switched on, then getPowerZone on the derived zones       *)
(***************************************************************************)
\* highest functional threshold power drawn
MaxFtp == 200

\* the power readings classified: from 0 to beyond 121 % of the highest FTP
Powers == 0..(2 * MaxFtp)

\* a file with all six power zones, the derivation switched on and the FTP
PowerSource(ftp) ==
  [kind |-> "json",
   value |-> Some([getDefaultConfig EXCEPT
                     !.powerSettings =
                        Some([cycling |-> Some([ftp |-> ftp,
                                                autoCalculate |-> TRUE])])])]

InitPower ==
  /\ ApiAtRest
  /\ \E ftp \in 1..MaxFtp, power \in Powers :
       zones = [phase |-> "input", source |-> PowerSource(ftp),
                reading |-> power]

LoadDerived ==
  /\ zones.phase = "input"
  /\ zones' = [phase |-> "derived", source |-> zones.source,
               reading |-> zones.reading,
               config |-> loadZonesConfig(zones.source).config]
  /\ UNCHANGED << env, envFile, task, started, lastStore, done, env0 >>

ClassifyDerived ==
  /\ zones.phase = "derived"
  /\ zones' = [phase |-> "measured", source |-> zones.source,
               reading |-> zones.reading, config |-> zones.config,
               result |-> getPowerZone(zones.reading, zones.config)]
  /\ UNCHANGED << env, envFile, task, started, lastStore, done, env0 >>

NextPower ==
  \/ LoadDerived
  \/ ClassifyDerived

SpecPower == InitPower /\ [][NextPower]_vars

(***************************************************************************)
(* Claims about classification                                             *)
(***************************************************************************)
\* a heart-rate classification that has been made
HeartRateClassified ==
  zones.phase = "classified" /\ zones.measure = "heartrate"

\* the zone list a classification that has been made ran over
ZonesScanned ==
  IF zones.measure = "heartrate"
  THEN The(The(zones.config.sports)[zones.sport])
  ELSE The(The(zones.config.powerZones).cycling)

\* zones that each start where the one before ends, the last one open
Contiguous(zs, sentinel) ==
  /\ Len(zs) >= 1
  /\ \A i \in 1..Len(zs) : zs[i].min < zs[i].max
  /\ \A i \in 1..(Len(zs) - 1) : zs[i + 1].min = zs[i].max
  /\ zs[Len(zs)].max >= sentinel

\* C11: with contiguous zones, getHeartRateZone returns zone Z for every
\* reading v with Z.min <= v < Z.max (also for v = Z.min where Z starts at the
\* max of the zone before), and the top zone for every reading at or above
\* the top zone's sentinel max
C11_HalfOpenZones ==
  (HeartRateClassified /\ Contiguous(ZonesScanned, HeartRateSentinel)) =>
    LET zs == ZonesScanned
        v  == zones.reading
    IN /\ \A i \in 1..Len(zs) :
            (zs[i].min <= v /\ v < zs[i].max) => zones.result = << zs[i] >>
       /\ v >= zs[Len(zs)].max => zones.result = << zs[Len(zs)] >>

\* C16: with the default configuration no reading is classified: neither
\* getHeartRateZone, for both sports, nor getPowerZone returns a zone
C16_DefaultConfigAlwaysMisses ==
  (zones.phase = "classified" /\ zones.config = getDefaultConfig) =>
    zones.result = << >>

\* C20: getHeartRateZone returns the first zone, in insertion order, with
\* reading >= min and (reading <= max or max >= 999), and no zone when none
\* passes; a reading is thus put in at most one zone, whatever the zones are
C20_FirstMatchInInsertionOrder ==
  HeartRateClassified =>
    LET zs == ZonesScanned
        v  == zones.reading
        Passes(i) == v >= zs[i].min /\ (v <= zs[i].max \/ zs[i].max >= 999)
    IN /\ Len(zones.result) <= 1
       /\ IF \E i \in 1..Len(zs) : Passes(i)
          THEN \E i \in 1..Len(zs) :
                 /\ Passes(i)
                 /\ \A j \in 1..(i - 1) : ~Passes(j)
                 /\ zones.result = << zs[i] >>
          ELSE zones.result = << >>

\* C20 witness: a reading that two overlapping zones contain went to the
\* earlier one in insertion order, not to the later or the narrower one
C20_Witness ==
  /\ HeartRateClassified
  /\ LET zs == ZonesScanned
         v  == zones.reading
     IN /\ Len(zs) = 3
        /\ v = 1
        /\ zs[1] = Zone("Zone 1", 2, 2)
        /\ zs[2] = Zone("Low Zone 2", 0, 2)
        /\ zs[3] = Zone("High Zone 2", 1, 999)
        /\ zones.result = << zs[2] >>


(***************************************************************************)
(* Claims about loading                                                    *)
(***************************************************************************)
\* the keys the derivations write to
LacksAKey(zs, names) ==
  \E i \in 1..Len(names) : \A j \in 1..Len(zs) : zs[j].name # names[i]

\* the heart-rate derivation of the sport is enabled and set, and the source
\* lacks a zone it writes to
SportDerivationFails(config, sport) ==
  LET md == config.metadata[1] IN
  /\ md.autoCalculate
  /\ md.userSettings # << >>
  /\ md.userSettings[1][sport] # << >>
  /\ md.userSettings[1][sport][1].maxHeartRate > 0
  /\ \/ config.sports = << >>
     \/ config.sports[1][sport] = << >>
     \/ LacksAKey(config.sports[1][sport][1], HeartRateZoneNames)

\* the power derivation is enabled and set, and the source has power zones
\* but lacks one it writes to
PowerDerivationFails(config) ==
  /\ config.powerSettings # << >>
  /\ config.powerSettings[1].cycling # << >>
  /\ config.powerSettings[1].cycling[1].autoCalculate
  /\ config.powerSettings[1].cycling[1].ftp > 0
  /\ config.powerZones # << >>
  /\ config.powerZones[1].cycling # << >>
  /\ LacksAKey(config.powerZones[1].cycling[1], PowerZoneNames)

\* reading, parsing or derivation fails on the source
SourceFails(source) ==
  \/ source.kind \in {"missing", "unparseable"}
  \/ source.value = << >>
  \/ LET config == source.value[1] IN
     \/ config.metadata = << >>
     \/ /\ config.metadata[1].autoCalculate
        /\ \/ config.metadata[1].userSettings = << >>
           \/ \E sp \in Sports : config.metadata[1].userSettings[1][sp] = << >>
     \/ \E sp \in Sports : SportDerivationFails(config, sp)
     \/ config.powerSettings # << >> /\ config.powerSettings[1].cycling = << >>
     \/ PowerDerivationFails(config)

\* C19: loadZonesConfig returns without throwing whatever the source (missing,
\* unparseable, without metadata, without a zone an enabled derivation writes
\* to), and whenever reading, parsing or derivation fails it returns the
\* complete default configuration, never a partly derived one
C19_LoadNeverFatal ==
  zones.phase = "loaded" =>
    /\ ~zones.outcome.threw
    /\ SourceFails(zones.source) => zones.outcome.config = getDefaultConfig

\* C19 witness: the running zones were derived, the cycling derivation failed
\* half-way at the missing "Zone 3", and the default configuration came back
C19_Witness ==
  /\ zones.phase = "loaded"
  /\ zones.source.kind = "json"
  /\ zones.source.value # << >>
  /\ LET config == zones.source.value[1] IN
     /\ config.metadata # << >>
     /\ config.metadata[1].autoCalculate
     /\ config.metadata[1].userSettings
          = << [ running |-> << [maxHeartRate |-> 185] >>,
                 cycling |-> << [maxHeartRate |-> 185] >> ] >>
     /\ config.sports
          = << [ running |-> << ManualZones(HeartRateZoneNames, 999) >>,
                 cycling |-> << Without(ManualZones(HeartRateZoneNames, 999),
                                        "Zone 3") >> ] >>
  /\ zones.outcome = [threw |-> FALSE, config |-> getDefaultConfig]


(***************************************************************************)
(* Claims about the zone analysis                                          *)
(***************************************************************************)
\* an analysis that returned a breakdown
Breakdown == zones.phase = "analyzed" /\ zones.analysis.kind = "breakdown"

\* the row of a zone in the summary list
Row(name) ==
  LET rows == zones.analysis.zones
  IN rows[CHOOSE k \in 1..Len(rows) : rows[k].zone_name = name]

\* the sum of f over the rows of the summary list from row k on
RECURSIVE SumRows(_, _)
SumRows(f(_), k) ==
  IF k > Len(zones.analysis.zones) THEN 0
  ELSE f(zones.analysis.zones[k]) + SumRows(f, k + 1)

Seconds(row) == row.time_seconds
Tenths(row) == row.percentage
Points(row) == row.data_points

\* every reading went to a zone
AllClassified == SumRows(Points, 1) = Len(zones.heartRateData)

\* the mean gap of the time stream as the fraction num / den, 1 when the
\* stream does not match the readings or has a single sample
MeanGap ==
  LET t == zones.timeData IN
  IF Len(t) = Len(zones.heartRateData) /\ Len(t) > 1
  THEN [num |-> t[Len(t)] - t[1], den |-> Len(t) - 1]
  ELSE [num |-> 1, den |-> 1]

Abs(x) == IF x < 0 THEN -x ELSE x

\* the activity of the test suite has been analysed
ScenarioAnalyzed ==
  /\ Breakdown
  /\ zones.source = ScenarioSource
  /\ zones.heartRateData = ScenarioReadings

\* C12: for the readings 140, 145, ..., 175, 170, 165 ten seconds apart and
\* the running zones Zone1 0..140, Zone2 140..160, Zone3 160..200, Zone1 gets
\* no sample and 0 %, Zone2 the four samples 140 to 155 (40 s, 40 %), Zone3
\* six samples (60 s, 60 %), and the rows come as Zone3, Zone2, Zone1
C12_ScenarioBreakdown ==
  ScenarioAnalyzed =>
    /\ Row("Zone1").data_points = 0
    /\ Row("Zone1").percentage = 0
    /\ Row("Zone2").data_points = 4
    /\ Row("Zone2").min_heart_rate = << 140 >>
    /\ Row("Zone2").max_heart_rate = << 155 >>
    /\ Row("Zone2").time_seconds = 40
    /\ Row("Zone2").percentage = 400
    /\ Row("Zone3").data_points = 6
    /\ Row("Zone3").time_seconds = 60
    /\ Row("Zone3").percentage = 600
    /\ [k \in 1..3 |-> zones.analysis.zones[k].zone_name]
         = << "Zone3", "Zone2", "Zone1" >>

\* the sport analysed has no configured zones: none at all, or an empty list
NoConfiguredZones ==
  \/ zones.config.sports = << >>
  \/ zones.config.sports[1][zones.sport] = << >>
  \/ zones.config.sports[1][zones.sport] = << << >> >>

\* C13: analyzeHeartRateZones never throws and yields one of three results:
\* null exactly when there are no readings, the 'Zones not configured' marker
\* exactly when there are readings and the sport has no configured zones, and
\* otherwise a breakdown whose summary list is not empty
C13_ThreeResultsNeverThrows ==
  zones.phase = "analyzed" =>
    /\ zones.analysis.kind \in {"null", "error", "breakdown"}
    /\ zones.analysis.kind = "null" <=> zones.heartRateData = << >>
    /\ zones.analysis.kind = "error" <=>
         (zones.heartRateData # << >> /\ NoConfiguredZones)
    /\ zones.analysis.kind = "breakdown" => zones.analysis.zones # << >>

\* C14 as stated: with a time stream as long as the readings and every
\* reading classified, the rounded time_seconds of the zones add up to the
\* total time (readings * interval) to within one second
C14_TimesWithinOneSecond ==
  (Breakdown /\ AllClassified
     /\ Len(zones.timeData) = Len(zones.heartRateData)) =>
    Abs(MeanGap.den * SumRows(Seconds, 1)
          - Len(zones.heartRateData) * MeanGap.num) <= MeanGap.den

\* C14 amended: with a time stream as long as the readings and every reading
\* classified, the rounded time_seconds of the zones add up to the total time
\* to within half a second per configured zone
C14_TimesWithinHalfSecondPerZone ==
  (Breakdown /\ AllClassified
     /\ Len(zones.timeData) = Len(zones.heartRateData)) =>
    2 * Abs(MeanGap.den * SumRows(Seconds, 1)
              - Len(zones.heartRateData) * MeanGap.num)
      <= Len(zones.analysis.zones) * MeanGap.den

\* C14 witness: three readings with a mean gap of 1.5 s went to three zones,
\* each reported as 2 s: 6 s for a total of 4.5 s
C14_Witness ==
  /\ Breakdown
  /\ AllClassified
  /\ zones.timeData = << 0, 1, 3 >>
  /\ Len(zones.heartRateData) = 3
  /\ SumRows(Seconds, 1) = 6

\* C15 as stated: with every reading classified the one-decimal percentages
\* add up to 100 to within 0.1, for up to six zones
C15_PercentagesWithinOneTenth ==
  (Breakdown /\ AllClassified) => Abs(SumRows(Tenths, 1) - 1000) <= 1

\* C15 amended: with every reading classified and a positive total time the
\* one-decimal percentages add up to 100 to within 0.05 per configured zone
\* (0.3 for six zones); with a total time of zero every percentage is 0
C15_PercentagesWithinHalfTenthPerZone ==
  (Breakdown /\ AllClassified) =>
    IF MeanGap.num > 0
    THEN 2 * Abs(SumRows(Tenths, 1) - 1000) <= Len(zones.analysis.zones)
    ELSE \A k \in 1..Len(zones.analysis.zones) :
           zones.analysis.zones[k].percentage = 0

\* C15 witness: six readings went to six zones, each reported as 16.7 %:
\* 100.2 % in all
C15_Witness ==
  /\ Breakdown
  /\ AllClassified
  /\ Len(zones.analysis.zones) = 6
  /\ \A k \in 1..6 : /\ zones.analysis.zones[k].data_points = 1
                     /\ zones.analysis.zones[k].percentage = 167
  /\ SumRows(Tenths, 1) = 1002


(***************************************************************************)
(* Claims about concurrent refreshes and absent data                       *)
(***************************************************************************)
\* both callers are through, and each one's refresh wrote the file
BothRefreshesWritten ==
  \A t \in Tasks : /\ started[t]
                   /\ task[t].stack = << >>
                   /\ task[t].wrote # 0

\* C17: when two concurrent calls both refresh, then in every interleaving,
\* once both refreshes have completed with successful write-backs, the pair
\* in the persisted store equals the in-memory pair, and the persisted pair
\* is the complete pair of one single refresh response
C17_LastWriterConsistent ==
  BothRefreshesWritten =>
    /\ DotenvGet(envFile, ACCESS_KEY) = env.access
    /\ DotenvGet(envFile, REFRESH_KEY) = env.refresh
    /\ \E k \in 1..NumPairs :
         /\ DotenvGet(envFile, ACCESS_KEY) = AccessTok(k)
         /\ DotenvGet(envFile, REFRESH_KEY) = RefreshTok(k)

\* the operations of the executions on the stack of task t
LiveOps(t) == { task[t].stack[k].op : k \in 1..Len(task[t].stack) }

\* execution i of done returned a value that says the data is absent
\* (has_heartrate false for getActivity, no laps for getActivityLaps)
AnsweredAbsent(i, op) ==
  /\ done[i].rec.op = op
  /\ done[i].rec.ret.kind = "value"
  /\ ~done[i].rec.ret.flag

\* execution i of done was awaited by an execution of op, and that one
\* returned the value what in the same step, requesting nothing further
ThenReturned(i, op, what) ==
  /\ op \notin LiveOps(done[i].task)
  /\ (i < Len(done) /\ done[i + 1].rec.op = op) =>
       /\ done[i + 1].rec.ret.kind = "value"
       /\ done[i + 1].rec.ret.what = what
       /\ ~done[i + 1].rec.ret.flag

\* C18: absent data is returned, not thrown: once getActivity has answered
\* has_heartrate false, getHeartRateData returns its has_heartrate=false
\* result without requesting a stream, and once getActivityLaps has answered
\* no laps, getActivityLapsWithData returns its empty-laps result without
\* requesting a stream
C18_AbsentDataReturned ==
  \A i \in DoneCalls :
    /\ AnsweredAbsent(i, "getActivity") =>
         ThenReturned(i, "getHeartRateData", "no_heartrate")
    /\ AnsweredAbsent(i, "getActivityLaps") =>
         ThenReturned(i, "getActivityLapsWithData", "no_laps")

\* C18 witness: getHeartRateData asked for the activity once, was told
\* has_heartrate false, and returned its has_heartrate=false result after
\* that single request
C18_Witness ==
  /\ Len(done) = 2
  /\ AnsweredAbsent(1, "getActivity")
  /\ done[2].rec.op = "getHeartRateData"
  /\ done[2].rec.ret.kind = "value"
  /\ done[2].rec.ret.what = "no_heartrate"
  /\ task[done[2].task].stack = << >>
  /\ task[done[2].task].reqs = 1


(***************************************************************************)
(* Further claims about the zone analysis                                  *)
(***************************************************************************)
\* the time stream is as long as the readings and has two samples or more
TimesMatch ==
  /\ Len(zones.timeData) = Len(zones.heartRateData)
  /\ Len(zones.timeData) >= 2

\* C21: the interval per sample is the mean of the successive differences of
\* the time stream, (last - first) / (n - 1), when the stream is as long as
\* the readings and has at least two samples, and exactly 1 second otherwise
\* (other length, empty, single sample); a time stream of another length
\* never makes the analysis fail
C21_MeanIntervalOrOneSecond ==
  /\ Breakdown =>
       LET used == zones.analysis.timeInterval
           n == Len(zones.timeData)
       IN IF TimesMatch
          THEN used.num * (n - 1)
                 = (zones.timeData[n] - zones.timeData[1]) * used.den
          ELSE used.num = used.den
  /\ (zones.phase = "analyzed" /\ ~TimesMatch) =>
       (zones.analysis.kind = "threw" => zones.config.sports = << >>)

\* C21 witness: three readings at 0, 1 and 3 s were analysed with an interval
\* of 1.5 s, 4.5 s in all, reported as 5 s
C21_Witness ==
  /\ Breakdown
  /\ Len(zones.heartRateData) = 3
  /\ zones.timeData = << 0, 1, 3 >>
  /\ zones.analysis.timeInterval = [num |-> 3, den |-> 2]
  /\ zones.analysis.total_time_seconds = 5

\* the zones configured for the sport analysed, in configuration order
ConfiguredZones == zones.config.sports[1][zones.sport][1]

\* the place of a zone in the configuration
PlaceOf(name) ==
  CHOOSE k \in 1..Len(ConfiguredZones) : ConfiguredZones[k].name = name

\* C22: the rows of a breakdown come by reported percentage, highest first,
\* rows of equal percentage in the configuration's zone order, and there is
\* exactly one row per configured zone, zones without samples included
C22_RowsSortedStableOnePerZone ==
  Breakdown =>
    LET rows == zones.analysis.zones IN
    /\ Len(rows) = Len(ConfiguredZones)
    /\ \A z \in 1..Len(ConfiguredZones) :
         Cardinality({ k \in 1..Len(rows) :
                         rows[k].zone_name = ConfiguredZones[z].name }) = 1
    /\ \A k \in 1..Len(rows) : \A l \in (k + 1)..Len(rows) :
         /\ rows[k].percentage >= rows[l].percentage
         /\ rows[k].percentage = rows[l].percentage =>
              PlaceOf(rows[k].zone_name) < PlaceOf(rows[l].zone_name)

\* C22 witness: of six zones the last got half of the readings, the second
\* and the third a quarter each and the others none: the last comes first,
\* the two quarters and the three empty zones in configuration order
C22_Witness ==
  /\ Breakdown
  /\ zones.heartRateData = << 2, 3, 6, 6 >>
  /\ [k \in 1..Len(zones.analysis.zones) |-> zones.analysis.zones[k].zone_name]
       = << "Zone 5", "Low Zone 2", "High Zone 2", "Zone 1", "Zone 3",
            "Zone 4" >>
  /\ [k \in 1..Len(zones.analysis.zones) |-> zones.analysis.zones[k].percentage]
       = << 500, 250, 250, 0, 0, 0 >>

\* reading v lies in the zone: at or above its min, and at or below its max
\* unless that is 999 or more
Within(v, zone) == v >= zone.min /\ (v <= zone.max \/ zone.max >= 999)

\* the readings that lie in no configured zone
Unclassified ==
  { i \in 1..Len(zones.heartRateData) :
      \A k \in 1..Len(ConfiguredZones) :
        ~Within(zones.heartRateData[i], ConfiguredZones[k]) }

\* C23: a reading outside every configured zone is in no zone's time,
\* sample count or value list, yet it counts in the total time (readings *
\* interval); so the zone times add up to the total time when every reading
\* is classified and to less when one is not and the interval is positive
C23_UnclassifiedDroppedButTimed ==
  Breakdown =>
    LET n == Len(zones.heartRateData)
        used == zones.analysis.timeInterval
        total == zones.analysis.total_time_seconds
        inZones == SumRows(Points, 1)
        rows == zones.analysis.zones
    IN /\ inZones = n - Cardinality(Unclassified)
       /\ \A k \in 1..Len(rows) :
            /\ 2 * used.den * rows[k].time_seconds
                 <= 2 * rows[k].data_points * used.num + used.den
            /\ 2 * rows[k].data_points * used.num + used.den
                 < 2 * used.den * (rows[k].time_seconds + 1)
            /\ rows[k].min_heart_rate # << >> =>
                 /\ Within(rows[k].min_heart_rate[1], rows[k].zone_info)
                 /\ Within(rows[k].max_heart_rate[1], rows[k].zone_info)
       /\ 2 * used.den * total <= 2 * n * used.num + used.den
       /\ 2 * n * used.num + used.den < 2 * used.den * (total + 1)
       /\ Unclassified = {} => inZones * used.num = n * used.num
       /\ (Unclassified # {} /\ used.num > 0) =>
            inZones * used.num < n * used.num

\* C23 witness: of the readings 0, 1 and 3, a second apart, 0 is below every
\* zone: two samples and 2 s are in the zones, and the total is 3 s
C23_Witness ==
  /\ Breakdown
  /\ zones.sport = "cycling"
  /\ zones.heartRateData = << 0, 1, 3 >>
  /\ zones.timeData = << 0, 1, 2 >>
  /\ Unclassified = {1}
  /\ SumRows(Points, 1) = 2
  /\ SumRows(Seconds, 1) = 2
  /\ zones.analysis.total_time_seconds = 3

\* the readings whose first zone, in configuration order, is the one at
\* place z
FirstIn(z) ==
  { i \in 1..Len(zones.heartRateData) :
      /\ Within(zones.heartRateData[i], ConfiguredZones[z])
      /\ \A j \in 1..(z - 1) :
           ~Within(zones.heartRateData[i], ConfiguredZones[j]) }

\* C30: in a breakdown the data_points of all rows add up to the number of
\* readings getHeartRateZone finds a zone for, never to more than there are
\* readings; each row's data_points is the number of readings whose first
\* matching zone is the row's; and a row has a min and a max heart rate
\* exactly when it has data points
C30_SampleConservation ==
  Breakdown =>
    LET rows == zones.analysis.zones
        n == Len(zones.heartRateData)
    IN /\ SumRows(Points, 1)
            = Cardinality({ i \in 1..n :
                  getHeartRateZone(zones.heartRateData[i], zones.sport,
                                   zones.config) # << >> })
       /\ SumRows(Points, 1) <= n
       /\ \A k \in 1..Len(rows) :
            /\ rows[k].data_points
                 = Cardinality(FirstIn(PlaceOf(rows[k].zone_name)))
            /\ rows[k].min_heart_rate # << >> <=> rows[k].data_points > 0
            /\ rows[k].max_heart_rate # << >> <=> rows[k].data_points > 0

\* C30 witness: the readings 1, 1 and 2 against zones that share their
\* boundaries: both 1s are counted in the first zone only, 2 in the second,
\* and the four zones without data points have neither min nor max
C30_Witness ==
  /\ Breakdown
  /\ zones.sport = "running"
  /\ zones.heartRateData = << 1, 1, 2 >>
  /\ Row("Zone 1").data_points = 2
  /\ Row("Zone 1").max_heart_rate = << 1 >>
  /\ Row("Low Zone 2").data_points = 1
  /\ Row("Low Zone 2").min_heart_rate = << 2 >>
  /\ Cardinality({ k \in 1..6 :
                     /\ zones.analysis.zones[k].data_points = 0
                     /\ zones.analysis.zones[k].min_heart_rate = << >>
                     /\ zones.analysis.zones[k].max_heart_rate = << >> }) = 4


(***************************************************************************)
(* Claims about the derivations                                            *)
(***************************************************************************)
\* C24: after the derivation from a positive integer FTP the six cycling
\* power zones leave no gap: getPowerZone puts every integer power >= 0 in a
\* zone, and Zone 6 has no upper limit
C24_DerivedPowerZonesHaveNoGap ==
  zones.phase = "measured" =>
    LET zs == zones.config.powerZones[1].cycling[1] IN
    /\ zones.result # << >>
    /\ zs[6].name = "Zone 6" /\ zs[6].max >= 9999

\* the nearest integer to percent hundredths of base, halves upwards
Share(base, percent) == (2 * base * percent + 100) \div 200

\* the boundaries the heart-rate derivation gives the zone at place i
DerivedHeartRateZone(i, maxHR) ==
  LET from == << 50, 60, 65, 70, 80, 90 >>
      to   == << 60, 65, 70, 80, 90, 0 >>
  IN [name |-> HeartRateZoneNames[i],
      min |-> Share(maxHR, from[i]),
      max |-> IF i = 6 THEN 999 ELSE Share(maxHR, to[i])]

\* the boundaries the power derivation gives the zone at place i
DerivedPowerZone(i, ftp) ==
  LET from == << 0, 56, 76, 91, 106, 121 >>
      to   == << 55, 75, 90, 105, 120, 0 >>
  IN [name |-> PowerZoneNames[i],
      min |-> Share(ftp, from[i]),
      max |-> IF i = 6 THEN 9999 ELSE Share(ftp, to[i])]

\* the heart-rate derivation of the sport is switched on in the source and
\* its maximum heart rate is positive
SportGateOpen(config, sport) ==
  /\ config.metadata # << >>
  /\ config.metadata[1].autoCalculate
  /\ config.metadata[1].userSettings # << >>
  /\ config.metadata[1].userSettings[1][sport] # << >>
  /\ config.metadata[1].userSettings[1][sport][1].maxHeartRate > 0

\* the power derivation is switched on in the source and the FTP is positive
PowerGateOpen(config) ==
  /\ config.powerSettings # << >>
  /\ config.powerSettings[1].cycling # << >>
  /\ config.powerSettings[1].cycling[1].autoCalculate
  /\ config.powerSettings[1].cycling[1].ftp > 0

\* what the claim says of a loaded file: behind an open gate the zones are
\* the derived ones, behind a closed gate those of the file
GatedAsStated ==
  LET before == zones.source.value[1]
      after == zones.outcome.config
  IN /\ \A sp \in Sports :
          IF SportGateOpen(before, sp)
          THEN after.sports[1][sp][1]
                 = [i \in 1..6 |->
                      DerivedHeartRateZone(i,
                        before.metadata[1].userSettings[1][sp][1].maxHeartRate)]
          ELSE after.sports = before.sports
                 \/ (/\ after.sports # << >>
                     /\ before.sports # << >>
                     /\ after.sports[1][sp] = before.sports[1][sp])
     /\ IF PowerGateOpen(before) /\ before.powerZones # << >>
             /\ before.powerZones[1].cycling # << >>
        THEN after.powerZones[1].cycling[1]
               = [i \in 1..6 |->
                    DerivedPowerZone(i, before.powerSettings[1].cycling[1].ftp)]
        ELSE after.powerZones = before.powerZones

\* C25 as stated: a sport's heart-rate boundaries are overwritten only when
\* the auto-calculate flag is set and the sport's maximum heart rate is
\* positive, the power boundaries only when the power flag is set and the
\* FTP is positive; in every other case loadZonesConfig returns the
\* boundaries of the file unchanged, and the derivation for one sport never
\* changes the other sport's
C25_DerivationGated ==
  (zones.phase = "loaded" /\ zones.source.kind = "json"
     /\ zones.source.value # << >>) => GatedAsStated

\* C25 amended: the same of every file that loads without a failure (a file
\* on which reading, parsing or a derivation fails yields the default
\* configuration, whatever its gates and boundaries)
C25_DerivationGatedWhenLoaded ==
  (zones.phase = "loaded" /\ ~SourceFails(zones.source)) => GatedAsStated

\* C25 witness: with the flag set, a running maximum of 185 and a cycling
\* maximum of 0, the running zones were derived (Zone 1 from 93 to 111) and
\* the cycling zones are those of the file
C25_Witness ==
  /\ zones.phase = "loaded"
  /\ ~SourceFails(zones.source)
  /\ LET before == zones.source.value[1]
         after == zones.outcome.config
     IN /\ SportGateOpen(before, "running")
        /\ ~SportGateOpen(before, "cycling")
        /\ before.metadata[1].autoCalculate
        /\ after.sports[1].running[1][1] = Zone("Zone 1", 93, 111)
        /\ after.sports[1].running # before.sports[1].running
        /\ after.sports[1].cycling
             = << ManualZones(HeartRateZoneNames, 999) >>


(***************************************************************************)
(* Claims about handleApiCall: termination, order of recovery, the error   *)
(* delivered, failed refreshes                                             *)
(***************************************************************************)
\* the call of the caller has settled: no handleApiCall and no
\* refreshAccessToken of it is still running
Settled(t) ==
  /\ started[t]
  /\ task[t].stack = << >>
  /\ task[t].result.kind \in {"value", "error"}

\* C26: when every outstanding request is answered, every invocation of
\* handleApiCall terminates, the nested ones of the composite operations
\* included and also when the remote rejects every request with a 401: once
\* the caller has started an operation, eventually nothing of it is running
\* and it has returned a value or thrown.
C26_EveryCallTerminates == started["t1"] ~> Settled("t1")

\* a composite operation has ended after the remote rejected all of its four
\* requests with a 401 and three refreshes succeeded: it threw the 401
C26_Witness ==
  /\ Settled("t1")
  /\ task["t1"].allUnauth
  /\ task["t1"].reqs = 4
  /\ task["t1"].refs = 3
  /\ Unauthorized(task["t1"].result)
  /\ \E i \in DoneCalls : done[i].rec.op \in CompositeOps

\* the refreshAccessToken executions that returned in the last step to a
\* handleApiCall, which then called the wrapped function again
RetriesStarted ==
  { i \in DoneRefreshes : /\ done[i].rec.ret.kind = "value"
                          /\ task[done[i].task].stack # << >> }

\* the frames of task t that are second attempts
SecondAttempts(t) ==
  { j \in 1..Len(task[t].stack) : task[t].stack[j].phase = "try2" }

\* the outcomes of updateTokensInEnvFile
StoreAttempted == {"written", "read_failed", "write_failed"}

\* C27: the second invocation of the wrapped function starts only after the
\* refresh has completed: when it starts, process.env holds the access and
\* the refresh token of the pair the refresh received, the update of the
\* .env file has been attempted, this.client has been rebuilt with the new
\* access token, and the request the retry sends carries that token; every
\* request sent during a second attempt carries the token of the pair
\* stored last, never an older handle or token.
C27_RetryAfterRefreshCompleted ==
  /\ \A i \in RetriesStarted :
        LET g == done[i].rec
            t == done[i].task
            top == Top(task[t])
        IN /\ g.posted = 1
           /\ g.resp \in 1..NumPairs
           /\ env.access = AccessTok(g.resp)
           /\ env.refresh = RefreshTok(g.resp)
           /\ g.fout \in StoreAttempted
           /\ task[t].client = AccessTok(g.resp)
           /\ SecondAttempts(t) # {}
           /\ \E j \in SecondAttempts(t) :
                 /\ task[t].stack[j].calls = 2
                 /\ task[t].stack[j].rout = "ok"
                 /\ \A k \in (j + 1)..Len(task[t].stack) :
                       task[t].stack[k].calls = 1
           /\ top.pc = "remote"
           /\ top.tok = AccessTok(g.resp)
  /\ \A t \in Tasks :
        (/\ SecondAttempts(t) # {}
         /\ Top(task[t]).pc = "remote")
        => /\ lastStore.task = t
           /\ Top(task[t]).tok = AccessTok(lastStore.k)
           /\ task[t].client = AccessTok(lastStore.k)
           /\ env.access = AccessTok(lastStore.k)

\* getActivityLapsWithData retries after a refresh that received pair 2 and
\* wrote the file: the getActivity request of the second attempt is sent
\* through the handle built with the access token of pair 2
C27_Witness ==
  /\ \E i \in RetriesStarted :
        /\ done[i].rec.resp = 2
        /\ done[i].rec.fout = "written"
  /\ Len(task["t1"].stack) = 2
  /\ task["t1"].stack[1].op = "getActivityLapsWithData"
  /\ task["t1"].stack[1].phase = "try2"
  /\ task["t1"].stack[2].op = "getActivity"
  /\ task["t1"].stack[2].phase = "try1"
  /\ task["t1"].stack[2].pc = "remote"
  /\ task["t1"].stack[2].tok = AccessTok(2)
  /\ task["t1"].wrote = 2
  /\ env0.access = AccessTok(0)

\* the handleApiCall executions that threw in the last step after their
\* first attempt had failed with a 401
FailedAfterAuthError ==
  { i \in DoneCalls : /\ done[i].rec.ret.kind = "error"
                      /\ Len(done[i].rec.outs) >= 1
                      /\ Unauthorized(done[i].rec.outs[1]) }

\* the errors refreshAccessToken throws
RefreshErrors == {"missing_credentials", "strava_api_error", "failed_to_refresh"}

\* C28: when handleApiCall fails after a first-attempt authorization error,
\* because the refresh failed or because the second attempt failed with any
\* error, what it throws is the error object of the first attempt; the
\* error of the refresh and the error of the second attempt are not what
\* the caller gets.
C28_FirstErrorDelivered ==
  \A i \in FailedAfterAuthError :
    LET d == done[i].rec IN
    /\ d.refreshes = 1
    /\ d.ret = d.outs[1]
    /\ d.ret.what \notin RefreshErrors
    /\ IF d.rout = "ok"
       THEN /\ d.calls = 2
            /\ Len(d.outs) = 2
            /\ d.outs[2].kind = "error"
            /\ d.ret # d.outs[2]
       ELSE /\ d.calls = 1
            /\ Len(d.outs) = 1

\* a call whose first attempt was answered 401, whose refresh succeeded and
\* whose second attempt was answered 500 has thrown the 401 of request 1
C28_Witness ==
  \E i \in FailedAfterAuthError :
    LET d == done[i].rec IN
    /\ d.op = "getAthlete"
    /\ d.rout = "ok"
    /\ d.outs[1] = Error("remote", 401, 1)
    /\ d.outs[2] = Error("remote", 500, 2)
    /\ d.ret = Error("remote", 401, 1)

\* the refreshAccessToken executions that threw in the last step
FailedRefreshes ==
  { i \in DoneRefreshes : done[i].rec.ret.kind = "error" }

\* a refreshAccessToken execution waits for the token endpoint
TokenRequested ==
  \E t \in Tasks : task[t].stack # << >> /\ Top(task[t]).pc = "post"

\* process.env's tokens, every client's handle and the .env file
CredentialState ==
  << env.access, env.refresh, [t \in Tasks |-> task[t].client], envFile >>

\* C29: a refreshAccessToken that throws, for missing credentials, for a
\* rejection or a transport failure of the token endpoint or for a response
\* without the access or the refresh token, leaves the tokens of
\* process.env, this.client and the .env file as they were before the call:
\* neither the step that takes it to its token request nor the step in
\* which it throws changes any of them.
C29_FailedRefreshChangesNothing ==
  [][ (TokenRequested' \/ FailedRefreshes' # {})
        => CredentialState' = CredentialState ]_vars

\* after a first refresh stored and wrote pair 1, a second refresh got a
\* response without the refresh token and threw: process.env, the handle
\* and the file still hold pair 1
C29_Witness ==
  /\ \E i \in FailedRefreshes : done[i].rec.rout = "no_refresh_token"
  /\ task["t1"].refs = 2
  /\ task["t1"].wrote = 1
  /\ env.access = AccessTok(1)
  /\ env.refresh = RefreshTok(1)
  /\ task["t1"].client = AccessTok(1)
  /\ StartsWith(envFile, AccessLine(AccessTok(1)))

====
